---- MODULE Spec2Model ----
(***************************************************************************)
(* Model of the PayGuard incident resolution engine: the action rules and  *)
(* the escalation evaluator (action_engine.py), the automation eligibility *)
(* gate, the playbook executor and the metrics (automation_engine.py), the *)
(* append-only log archive (log_store.py), the impact score                *)
(* (impact_scorer.py) and the orchestrator run_pipeline (pipeline.py).     *)
(*                                                                         *)
(* Units.  Money is counted in paise (1/100 rupee) because impact_score is *)
(* a float rounded to 2 decimals; the log archive takes money in 1/1000    *)
(* rupee so that round(x, 2) is a real conversion.  ml_confidence and the  *)
(* random draw are counted in hundredths.  A text is modelled as the       *)
(* sequence of its tokens; "X in text" is token membership.                *)
(***************************************************************************)
EXTENDS Integers, Sequences, FiniteSets, TLC

VARIABLES
    gate_args,      \* arguments of the is_eligible_for_automation call (a sequence of 0 or 1 records)
    gate_ret,       \* its return value (a sequence of 0 or 1 records)
    df,             \* the batch (DataFrame) flowing through the automation layers
    threshold,      \* ml_confidence_threshold of the automate_dataframe call
    stage,          \* position of the batch: "scored", "processed", "automated"
    calls,          \* per row: the calls automate_dataframe made for it, in order
    log_file,       \* data/automation_logs.csv: <<>> when absent, else <<lines>>
    appended,       \* history: the records passed to append_log so far, in order
    last_read,      \* result of the latest load_logs / get_log_summary call (0 or 1 records)
    read_counts,    \* history: the record count of every load_logs so far
    pc,             \* concurrent callers: position of each caller in its operation
    op,             \* concurrent callers: the operation a caller is running
    done_ops,       \* concurrent callers: number of operations each caller finished
    call_log,       \* history: the direct calls of the engines' functions made so far, each with its arguments and return value
    clock,          \* the wall clock read by datetime.datetime.now()
    pipe_args,      \* arguments of the run_pipeline call (a sequence of 0 or 1 records)
    pipe_ret        \* its outcome: the returned DataFrame or the exception raised (0 or 1 records)

gateVars == <<gate_args, gate_ret>>
autoVars == <<df, threshold, stage, calls>>
logVars  == <<log_file, appended, last_read, read_counts>>
concVars == <<pc, op, done_ops>>
callVars == <<call_log, clock>>
pipeVars == <<pipe_args, pipe_ret>>
vars == <<gate_args, gate_ret, df, threshold, stage, calls, log_file, appended, last_read, read_counts, pc, op, done_ops, call_log, clock, pipe_args, pipe_ret>>

----------------------------------------------------------------------------
(* Units and texts *)

Rupees(n) == n * 100

Contains(text, token) == \E i \in DOMAIN text : text[i] = token

----------------------------------------------------------------------------
(* action_engine.py: escalation *)

ESCALATION_IMPACT_THRESHOLD == 100000
ESCALATION_DOWNTIME_THRESHOLD == 120

\* Faulty variant: the downtime test is an equality, so a longer outage does not escalate.
should_escalate_downtime_equal(impact_score, downtime_minutes) ==
    \/ impact_score >= Rupees(ESCALATION_IMPACT_THRESHOLD)
    \/ downtime_minutes = ESCALATION_DOWNTIME_THRESHOLD

should_escalate(impact_score, downtime_minutes) ==
    \/ impact_score >= Rupees(ESCALATION_IMPACT_THRESHOLD)
    \/ downtime_minutes >= ESCALATION_DOWNTIME_THRESHOLD

\* Faulty variant: the second test is an elif, so at most one reason is listed.
escalation_status_one_reason(impact_score, downtime_minutes) ==
    IF should_escalate(impact_score, downtime_minutes)
    THEN <<"ESCALATED">>
         \o (IF impact_score >= Rupees(ESCALATION_IMPACT_THRESHOLD)
             THEN <<"Impact exceeds threshold">>
             ELSE <<"Downtime exceeds threshold">>)
    ELSE <<"Normal", "Monitor">>

\* "🚨 ESCALATED — " + "; ".join(reasons), or "✅ Normal — Monitor"
escalation_status(impact_score, downtime_minutes) ==
    IF should_escalate(impact_score, downtime_minutes)
    THEN <<"ESCALATED">>
         \o (IF impact_score >= Rupees(ESCALATION_IMPACT_THRESHOLD)
             THEN <<"Impact exceeds threshold">> ELSE <<>>)
         \o (IF downtime_minutes >= ESCALATION_DOWNTIME_THRESHOLD
             THEN <<"Downtime exceeds threshold">> ELSE <<>>)
    ELSE <<"Normal", "Monitor">>

----------------------------------------------------------------------------
(* action_engine.py: recommended action *)

ACTION_MAP ==
    [network_failure |-> [action |-> "Restart network interface; verify ISP connectivity; check firewall rules.",
                          sla_minutes |-> 30, team |-> "Network Operations"],
     card_declined |-> [action |-> "Check card processor gateway status; review decline reason codes; contact issuing bank if batch failure.",
                        sla_minutes |-> 15, team |-> "Payments Team"],
     hardware_fault |-> [action |-> "Dispatch field technician immediately; run hardware diagnostics; check card reader & dispensing mechanism.",
                         sla_minutes |-> 60, team |-> "Field Maintenance"],
     cash_out |-> [action |-> "Schedule emergency cash replenishment; notify branch manager; temporarily disable cash withdrawal.",
                   sla_minutes |-> 45, team |-> "Cash Management"],
     auth_timeout |-> [action |-> "Check authentication server latency; review API timeout configs; increase retry window.",
                       sla_minutes |-> 20, team |-> "Backend Engineering"]]

FALLBACK_ACTION ==
    [action |-> "Log incident; assign to L1 support for triage.", sla_minutes |-> 30, team |-> "L1 Support"]

\* Faulty variant: ACTION_MAP[predicted_issue], which raises KeyError for a key not in the table.
get_recommended_action_subscript(predicted_issue) ==
    IF predicted_issue \in DOMAIN ACTION_MAP
    THEN ACTION_MAP[predicted_issue]
    ELSE [raised |-> "KeyError"]

\* ACTION_MAP.get(predicted_issue, FALLBACK_ACTION)
get_recommended_action(predicted_issue) ==
    IF predicted_issue \in DOMAIN ACTION_MAP
    THEN ACTION_MAP[predicted_issue]
    ELSE FALLBACK_ACTION

----------------------------------------------------------------------------
(* automation_engine.py: eligibility gate *)

AUTO_MAX_IMPACT_SCORE == 50000
AUTO_MAX_DOWNTIME == 60
AUTO_MAX_COMPLAINTS == 15

ReasonEscalated == [text |-> "Incident is escalated - requires human authority", limit |-> 0]
ReasonImpact == [text |-> "Impact exceeds auto-remediation ceiling", limit |-> AUTO_MAX_IMPACT_SCORE]
ReasonDowntime == [text |-> "Downtime exceeds auto-remediation limit", limit |-> AUTO_MAX_DOWNTIME]
ReasonComplaints == [text |-> "Complaint volume exceeds safe automation threshold", limit |-> AUTO_MAX_COMPLAINTS]
ReasonEligible == [text |-> "Eligible for automated first-level remediation", limit |-> 0]

\* Faulty variant: the escalation check is dropped from the gate.
is_eligible_no_escalation_check(impact_score, downtime_minutes, complaint_count, status) ==
    IF impact_score > Rupees(AUTO_MAX_IMPACT_SCORE)
    THEN [eligible |-> FALSE, reason |-> ReasonImpact]
    ELSE IF downtime_minutes > AUTO_MAX_DOWNTIME
    THEN [eligible |-> FALSE, reason |-> ReasonDowntime]
    ELSE IF complaint_count > AUTO_MAX_COMPLAINTS
    THEN [eligible |-> FALSE, reason |-> ReasonComplaints]
    ELSE [eligible |-> TRUE, reason |-> ReasonEligible]

\* Faulty variant: the impact ceiling is exclusive (>= instead of >).
is_eligible_exclusive_ceiling(impact_score, downtime_minutes, complaint_count, status) ==
    IF Contains(status, "ESCALATED")
    THEN [eligible |-> FALSE, reason |-> ReasonEscalated]
    ELSE IF impact_score >= Rupees(AUTO_MAX_IMPACT_SCORE)
    THEN [eligible |-> FALSE, reason |-> ReasonImpact]
    ELSE IF downtime_minutes > AUTO_MAX_DOWNTIME
    THEN [eligible |-> FALSE, reason |-> ReasonDowntime]
    ELSE IF complaint_count > AUTO_MAX_COMPLAINTS
    THEN [eligible |-> FALSE, reason |-> ReasonComplaints]
    ELSE [eligible |-> TRUE, reason |-> ReasonEligible]

\* Faulty variant: the downtime limit is checked before the impact ceiling.
is_eligible_downtime_first(impact_score, downtime_minutes, complaint_count, status) ==
    IF Contains(status, "ESCALATED")
    THEN [eligible |-> FALSE, reason |-> ReasonEscalated]
    ELSE IF downtime_minutes > AUTO_MAX_DOWNTIME
    THEN [eligible |-> FALSE, reason |-> ReasonDowntime]
    ELSE IF impact_score > Rupees(AUTO_MAX_IMPACT_SCORE)
    THEN [eligible |-> FALSE, reason |-> ReasonImpact]
    ELSE IF complaint_count > AUTO_MAX_COMPLAINTS
    THEN [eligible |-> FALSE, reason |-> ReasonComplaints]
    ELSE [eligible |-> TRUE, reason |-> ReasonEligible]

is_eligible_for_automation(impact_score, downtime_minutes, complaint_count, status) ==
    IF Contains(status, "ESCALATED")
    THEN [eligible |-> FALSE, reason |-> ReasonEscalated]
    ELSE IF impact_score > Rupees(AUTO_MAX_IMPACT_SCORE)
    THEN [eligible |-> FALSE, reason |-> ReasonImpact]
    ELSE IF downtime_minutes > AUTO_MAX_DOWNTIME
    THEN [eligible |-> FALSE, reason |-> ReasonDowntime]
    ELSE IF complaint_count > AUTO_MAX_COMPLAINTS
    THEN [eligible |-> FALSE, reason |-> ReasonComplaints]
    ELSE [eligible |-> TRUE, reason |-> ReasonEligible]

----------------------------------------------------------------------------
(* Input domains: the thresholds, their neighbours and the spec's scenarios *)

ImpactValues == {0, Rupees(18000), Rupees(50000), Rupees(50000) + 1, Rupees(100000) - 1, Rupees(100000), Rupees(1012500)}
DowntimeValues == {0, 25, 60, 61, 119, 120, 200}
ComplaintValues == {0, 8, 15, 16, 25}

\* Every text escalation_status can return, and the empty default of row.get.
StatusValues == {escalation_status(i, d) : i \in ImpactValues, d \in DowntimeValues} \cup {<<>>}

----------------------------------------------------------------------------
(* automation_engine.py: playbooks and the playbook executor *)

PLAYBOOKS ==
    [network_failure |-> [steps |-> <<"PING_CHECK", "INTERFACE_RESET", "DNS_FLUSH", "CONNECTIVITY_TEST", "VERIFY">>, success_rate |-> 72, auto_sla_sec |-> 45],
     card_declined |-> [steps |-> <<"GATEWAY_STATUS", "RETRY_BATCH", "RULE_CHECK", "SESSION_RESET", "VERIFY">>, success_rate |-> 65, auto_sla_sec |-> 30],
     auth_timeout |-> [steps |-> <<"LATENCY_CHECK", "TIMEOUT_EXTEND", "RETRY_QUEUE", "CACHE_WARMUP", "VERIFY">>, success_rate |-> 80, auto_sla_sec |-> 25],
     cash_out |-> [steps |-> <<"BALANCE_VERIFY", "ALERT_DISPATCH", "BRANCH_NOTIFY", "PARTIAL_DISABLE">>, success_rate |-> 45, auto_sla_sec |-> 20],
     hardware_fault |-> [steps |-> <<"DIAGNOSTICS", "SOFT_RESET", "ERROR_LOG_PULL", "TICKET_CREATE">>, success_rate |-> 20, auto_sla_sec |-> 15]]

FALLBACK_PLAYBOOK ==
    [steps |-> <<"LOG_INCIDENT", "TICKET_CREATE">>, success_rate |-> 10, auto_sla_sec |-> 10]

\* PLAYBOOKS.get(predicted_issue, FALLBACK_PLAYBOOK)
SelectPlaybook(predicted_issue) ==
    IF predicted_issue \in DOMAIN PLAYBOOKS THEN PLAYBOOKS[predicted_issue] ELSE FALLBACK_PLAYBOOK

\* Faulty variant: the closing VERIFY step reports a failure of its own.
simulate_step_verify_fails(step_name) ==
    [step |-> step_name, status |-> IF step_name = "VERIFY" THEN "FAILED" ELSE "COMPLETED"]

\* simulate_step: every step completes; the result carries the step name and its status.
simulate_step(step_name) == [step |-> step_name, status |-> "COMPLETED"]

\* random.Random(s).random(), in hundredths rounded down, for the seeds the model uses
\* (CPython's Mersenne Twister: 0.8444..., 0.1343..., 0.9560..., 0.2379..., 0.2360...,
\* 0.6229..., 0.7933..., and 0.0774... for 32, 0.6394... for 42, 0.8372... for 2601,
\* 0.5846... for 8001).
FirstDraw(s) ==
    CASE s = 0 -> 84 [] s = 1 -> 13 [] s = 2 -> 95 [] s = 3 -> 23 [] s = 4 -> 23
      [] s = 5 -> 62 [] s = 6 -> 79 [] s = 32 -> 7 [] s = 42 -> 63 [] s = 2601 -> 83 [] s = 8001 -> 58

\* Faulty variant: random.Random() seeded from the system time, whatever seed was passed.
SeedOfTime(seed, impact_score) == clock

\* seed if seed is not None else int(impact_score) % 9999; seed is <<>> (None) or <<n>>
SeedOf(seed, impact_score) ==
    IF seed # <<>> THEN seed[1] ELSE (impact_score \div 100) % 9999

\* Faulty variant: a failed attempt reports no elapsed time.
ReportedTimeZeroOnFailure(success, elapsed) == IF success THEN elapsed ELSE 0

\* "elapsed if success else elapsed": the time reported for an executed playbook.
ReportedTime(success, elapsed) == IF success THEN elapsed ELSE elapsed

\* run_automation: the returned dict, and (trace) the calls it made, in order.
run_automation(predicted_issue, impact_score, downtime_minutes, complaint_count, status, seed) ==
    LET gate == is_eligible_for_automation(impact_score, downtime_minutes, complaint_count, status)
        playbook == SelectPlaybook(predicted_issue)
        steps_executed == [k \in DOMAIN playbook.steps |-> simulate_step(playbook.steps[k])]
        success == FirstDraw(SeedOf(seed, impact_score)) < playbook.success_rate
        elapsed == playbook.auto_sla_sec
    IN  IF ~gate.eligible
        THEN [resolution_mode |-> "MANUAL_REQUIRED",
              automation_log |-> <<"[SKIP]", gate.reason.text>>,
              steps_executed |-> <<>>,
              auto_resolution_time_sec |-> 0,
              eligibility_reason |-> gate.reason,
              trace |-> <<"is_eligible_for_automation">>]
        ELSE [resolution_mode |-> IF success THEN "AUTO_RESOLVED" ELSE "AUTO_ATTEMPTED",
              automation_log |-> <<"[START]">> \o playbook.steps
                                 \o (IF success THEN <<"[SUCCESS]", "[CLOSED]">> ELSE <<"[PARTIAL]", "[HANDOFF]">>),
              steps_executed |-> steps_executed,
              auto_resolution_time_sec |-> ReportedTime(success, elapsed),
              eligibility_reason |-> gate.reason,
              trace |-> <<"is_eligible_for_automation">>
                        \o [k \in DOMAIN playbook.steps |-> "simulate_step"]
                        \o <<"rng.random">>]

ReasonConfidence(ml_confidence_threshold) ==
    [text |-> "ML confidence < threshold", limit |-> ml_confidence_threshold]

\* Faulty variant: the ML confidence gate is missing; every row takes the normal automation path.
automate_row_no_confidence_gate(row, idx, ml_confidence_threshold) ==
    run_automation(row.predicted_issue, row.impact_score, row.downtime_minutes,
                   row.complaint_count, row.escalation_status, <<idx>>)

\* The body of automate_dataframe's loop for one row: the result dict and the calls made.
automate_row(row, idx, ml_confidence_threshold) ==
    IF row.ml_confidence < ml_confidence_threshold
    THEN [resolution_mode |-> "MANUAL_REQUIRED",
          automation_log |-> <<"[SKIP]", "ML confidence is below threshold">>,
          auto_resolution_time_sec |-> 0,
          eligibility_reason |-> ReasonConfidence(ml_confidence_threshold),
          trace |-> <<>>]
    ELSE run_automation(row.predicted_issue, row.impact_score, row.downtime_minutes,
                        row.complaint_count, row.escalation_status, <<idx>>)

\* The four columns automate_dataframe copies from a result into the row.
WithResult(row, result) ==
    [predicted_issue |-> row.predicted_issue,
     ml_confidence |-> row.ml_confidence,
     impact_score |-> row.impact_score,
     downtime_minutes |-> row.downtime_minutes,
     complaint_count |-> row.complaint_count,
     escalation_status |-> row.escalation_status,
     resolution_mode |-> result.resolution_mode,
     automation_log |-> result.automation_log,
     auto_resolution_time_sec |-> result.auto_resolution_time_sec,
     eligibility_reason |-> result.eligibility_reason]

\* process_dataframe, as far as the automation layer reads it: the escalation_status column.
WithEscalation(row) ==
    [predicted_issue |-> row.predicted_issue,
     ml_confidence |-> row.ml_confidence,
     impact_score |-> row.impact_score,
     downtime_minutes |-> row.downtime_minutes,
     complaint_count |-> row.complaint_count,
     escalation_status |-> escalation_status(row.impact_score, row.downtime_minutes)]

----------------------------------------------------------------------------
(* Idle values: what a specification leaves alone *)

IdleGate == gate_args = <<>> /\ gate_ret = <<>>
IdleAuto == df = <<>> /\ threshold = 0 /\ stage = "idle" /\ calls = <<>>
IdleLog == log_file = <<>> /\ appended = <<>> /\ last_read = <<>> /\ read_counts = <<>>
IdleConc == pc = <<>> /\ op = <<>> /\ done_ops = <<>>
IdleCall == call_log = <<>> /\ clock = 0
IdlePipe == pipe_args = <<>> /\ pipe_ret = <<>>

----------------------------------------------------------------------------
(* SpecGate: the risk gate as a pure function of its four arguments *)

GateInputs ==
    [impact_score : ImpactValues, downtime_minutes : DowntimeValues,
     complaint_count : ComplaintValues, escalation_status : StatusValues]

CallGate ==
    /\ gate_args # <<>>
    /\ gate_ret = <<>>
    /\ gate_ret' = <<is_eligible_for_automation(gate_args[1].impact_score, gate_args[1].downtime_minutes,
                                                gate_args[1].complaint_count, gate_args[1].escalation_status)>>
    /\ UNCHANGED <<gate_args, autoVars, logVars, concVars, callVars, pipeVars>>

InitGate ==
    /\ gate_args \in {<<a>> : a \in GateInputs}
    /\ gate_ret = <<>>
    /\ IdleAuto /\ IdleLog /\ IdleConc /\ IdleCall /\ IdlePipe

NextGate == CallGate

SpecGate == InitGate /\ [][NextGate]_vars

GateReturned == gate_args # <<>> /\ gate_ret # <<>>

\* C1: whenever the gate is called with a status text containing ESCALATED, it returns
\* eligible = FALSE, whatever impact_score, downtime_minutes and complaint_count are.
C1_EscalatedNeverEligible ==
    GateReturned /\ Contains(gate_args[1].escalation_status, "ESCALATED")
        => gate_ret[1].eligible = FALSE

\* An escalated status with every risk figure inside its ceiling was refused.
C1_Witness ==
    /\ GateReturned
    /\ Contains(gate_args[1].escalation_status, "ESCALATED")
    /\ gate_args[1].impact_score <= Rupees(AUTO_MAX_IMPACT_SCORE)
    /\ gate_args[1].downtime_minutes <= AUTO_MAX_DOWNTIME
    /\ gate_args[1].complaint_count <= AUTO_MAX_COMPLAINTS
    /\ gate_ret[1].eligible = FALSE

\* C3: the risk gate returns eligible = TRUE exactly when the incident is not escalated,
\* impact_score <= 50,000, downtime_minutes <= 60 and complaint_count <= 15.
C3_EligibleIffAllFour ==
    GateReturned =>
        (gate_ret[1].eligible = TRUE <=>
            /\ ~Contains(gate_args[1].escalation_status, "ESCALATED")
            /\ gate_args[1].impact_score <= Rupees(50000)
            /\ gate_args[1].downtime_minutes <= 60
            /\ gate_args[1].complaint_count <= 15)

\* Every ceiling met exactly, and the incident was found eligible.
C3_Witness ==
    /\ GateReturned
    /\ gate_args[1].impact_score = Rupees(50000)
    /\ gate_args[1].downtime_minutes = 60
    /\ gate_args[1].complaint_count = 15
    /\ gate_ret[1].eligible = TRUE

\* C4: a rejection's reason names the first violated condition in the order escalation,
\* impact ceiling, downtime ceiling, complaint ceiling, and never a later one.
C4_FirstViolationReported ==
    GateReturned /\ gate_ret[1].eligible = FALSE =>
        LET a == gate_args[1]
            esc == Contains(a.escalation_status, "ESCALATED")
            imp == a.impact_score > Rupees(50000)
            dwn == a.downtime_minutes > 60
            cmp == a.complaint_count > 15
        IN  gate_ret[1].reason =
                IF esc THEN ReasonEscalated
                ELSE IF imp THEN ReasonImpact
                ELSE IF dwn THEN ReasonDowntime
                ELSE ReasonComplaints

\* Impact, downtime and complaints all over their ceilings, not escalated: impact is named.
C4_Witness ==
    /\ GateReturned
    /\ ~Contains(gate_args[1].escalation_status, "ESCALATED")
    /\ gate_args[1].impact_score > Rupees(50000)
    /\ gate_args[1].downtime_minutes > 60
    /\ gate_args[1].complaint_count > 15
    /\ gate_ret[1].reason = ReasonImpact

----------------------------------------------------------------------------
(* SpecAuto: process_dataframe then automate_dataframe over a scored batch *)

MaxRows == 2

AutoIssues == {"network_failure", "unknown"}
AutoConfidences == {59, 60}
AutoThresholds == {60, 95}
AutoImpacts == {Rupees(18000), Rupees(60000), Rupees(1012500)}
AutoDowntimes == {25, 120}
AutoComplaints == {8, 25}

ScoredRows ==
    [predicted_issue : AutoIssues, ml_confidence : AutoConfidences, impact_score : AutoImpacts,
     downtime_minutes : AutoDowntimes, complaint_count : AutoComplaints]

Batches == UNION {[1..n -> ScoredRows] : n \in 0..MaxRows}

process_dataframe ==
    /\ stage = "scored"
    /\ df' = [i \in DOMAIN df |-> WithEscalation(df[i])]
    /\ stage' = "processed"
    /\ UNCHANGED <<threshold, calls, gateVars, logVars, concVars, callVars, pipeVars>>

\* The DataFrame index is 0..n-1, so row i of the sequence has idx = i - 1.
automate_dataframe ==
    /\ stage = "processed"
    /\ df' = [i \in DOMAIN df |-> WithResult(df[i], automate_row(df[i], i - 1, threshold))]
    /\ calls' = [i \in DOMAIN df |-> automate_row(df[i], i - 1, threshold).trace]
    /\ stage' = "automated"
    /\ UNCHANGED <<threshold, gateVars, logVars, concVars, callVars, pipeVars>>

InitAuto ==
    /\ df \in Batches
    /\ threshold \in AutoThresholds
    /\ stage = "scored"
    /\ calls = <<>>
    /\ IdleGate /\ IdleLog /\ IdleConc /\ IdleCall /\ IdlePipe

NextAuto == process_dataframe \/ automate_dataframe

SpecAuto == InitAuto /\ [][NextAuto]_vars

\* C2: after automate_dataframe every row with ml_confidence < confidence_threshold is
\* MANUAL_REQUIRED with a reason citing the ML confidence check, and neither the risk gate
\* nor any playbook step was called for it.
C2_ConfidenceGateFirst ==
    stage = "automated" =>
        \A i \in DOMAIN df :
            df[i].ml_confidence < threshold =>
                /\ df[i].resolution_mode = "MANUAL_REQUIRED"
                /\ df[i].eligibility_reason = ReasonConfidence(threshold)
                /\ ~Contains(calls[i], "is_eligible_for_automation")
                /\ ~Contains(calls[i], "simulate_step")

\* A low-confidence row that the risk gate would have passed was routed to manual.
C2_Witness ==
    /\ stage = "automated"
    /\ \E i \in DOMAIN df :
          /\ df[i].ml_confidence < threshold
          /\ ~Contains(df[i].escalation_status, "ESCALATED")
          /\ df[i].impact_score <= Rupees(50000)
          /\ df[i].downtime_minutes <= 60
          /\ df[i].complaint_count <= 15
          /\ df[i].resolution_mode = "MANUAL_REQUIRED"

\* C5 as stated: a row escalated through the impact threshold is MANUAL_REQUIRED with a
\* reason naming escalation, for every ml_confidence and complaint_count.
C5_AsStated ==
    stage = "automated" =>
        \A i \in DOMAIN df :
            df[i].impact_score >= Rupees(100000) =>
                /\ df[i].resolution_mode = "MANUAL_REQUIRED"
                /\ df[i].eligibility_reason = ReasonEscalated

\* C5 amended: such a row is MANUAL_REQUIRED for every ml_confidence and complaint_count;
\* its reason names escalation when ml_confidence >= threshold and cites the ML
\* confidence check when ml_confidence < threshold.
C5_EscalatedManual ==
    stage = "automated" =>
        \A i \in DOMAIN df :
            df[i].impact_score >= Rupees(100000) =>
                /\ df[i].resolution_mode = "MANUAL_REQUIRED"
                /\ df[i].eligibility_reason =
                       IF df[i].ml_confidence < threshold
                       THEN ReasonConfidence(threshold) ELSE ReasonEscalated

\* The 1,012,500 incident passed the confidence gate and was refused for escalation.
C5_Witness ==
    /\ stage = "automated"
    /\ \E i \in DOMAIN df :
          /\ df[i].impact_score = Rupees(1012500)
          /\ df[i].ml_confidence >= threshold
          /\ df[i].resolution_mode = "MANUAL_REQUIRED"
          /\ df[i].eligibility_reason = ReasonEscalated

\* The names of all playbook steps, and the step lines of an automation_log.
StepNames ==
    UNION {{PLAYBOOKS[k].steps[j] : j \in DOMAIN PLAYBOOKS[k].steps} : k \in DOMAIN PLAYBOOKS}
    \cup {FALLBACK_PLAYBOOK.steps[j] : j \in DOMAIN FALLBACK_PLAYBOOK.steps}

IsStepName(token) == token \in StepNames

StepsLogged(automation_log) == SelectSeq(automation_log, IsStepName)

\* Whether a processed row is refused by the ML confidence gate or by the risk gate.
FailsAGate(row, ml_confidence_threshold) ==
    \/ row.ml_confidence < ml_confidence_threshold
    \/ ~is_eligible_for_automation(row.impact_score, row.downtime_minutes,
                                   row.complaint_count, row.escalation_status).eligible

\* C14: a row that fails the confidence gate or the risk gate has no playbook step
\* executed or logged and is MANUAL_REQUIRED with auto_resolution_time_sec = 0; a row that
\* reaches execution is AUTO_RESOLVED or AUTO_ATTEMPTED and, in both cases, its
\* auto_resolution_time_sec is the auto_sla_sec of its playbook.
C14_RefusedUntouchedExecutedTimed ==
    stage = "automated" =>
        \A i \in DOMAIN df :
            IF FailsAGate(df[i], threshold)
            THEN /\ df[i].resolution_mode = "MANUAL_REQUIRED"
                 /\ df[i].auto_resolution_time_sec = 0
                 /\ ~Contains(calls[i], "simulate_step")
                 /\ StepsLogged(df[i].automation_log) = <<>>
            ELSE /\ df[i].resolution_mode \in {"AUTO_RESOLVED", "AUTO_ATTEMPTED"}
                 /\ df[i].auto_resolution_time_sec = SelectPlaybook(df[i].predicted_issue).auto_sla_sec
                 /\ StepsLogged(df[i].automation_log) = SelectPlaybook(df[i].predicted_issue).steps

\* One batch holds a failed attempt timed at its playbook's 45 s and a row the risk gate
\* refused with time 0.
C14_Witness ==
    /\ stage = "automated"
    /\ \E i, j \in DOMAIN df :
          /\ df[i].resolution_mode = "AUTO_ATTEMPTED"
          /\ df[i].auto_resolution_time_sec = 45
          /\ df[j].ml_confidence >= threshold
          /\ df[j].resolution_mode = "MANUAL_REQUIRED"
          /\ df[j].auto_resolution_time_sec = 0

----------------------------------------------------------------------------
(* log_store.py: the CSV archive *)

LOG_COLUMNS ==
    <<"timestamp", "atm_id", "predicted_issue", "impact_score", "resolution_mode",
      "eligibility_reason", "auto_resolution_time_sec", "automation_log">>

\* The line writer.writeheader() writes.
HeaderLine == [kind |-> "header", columns |-> LOG_COLUMNS]

\* The line writer.writerow(record) writes: one cell per column.
RowLine(cells) == [kind |-> "row", cells |-> cells]

\* round(x, 2) of a float given in 1/1000: the result in 1/100.  The inputs of the model
\* have no 5 in the third decimal, where the float's binary expansion decides.
Round2(x) == IF x % 10 < 5 THEN x \div 10 ELSE x \div 10 + 1

\* The record dict append_log builds (lines 71-80); auto_resolution_time_sec is whole
\* seconds in every caller, which round(x, 1) leaves alone.
LogRecord(atm_id, predicted_issue, impact_score, resolution_mode, eligibility_reason, auto_resolution_time_sec, automation_log) ==
    [timestamp |-> "now",
     atm_id |-> atm_id,
     predicted_issue |-> predicted_issue,
     impact_score |-> Round2(impact_score),
     resolution_mode |-> resolution_mode,
     eligibility_reason |-> eligibility_reason,
     auto_resolution_time_sec |-> auto_resolution_time_sec,
     automation_log |-> automation_log]

\* Create the file with the header line if it does not exist.
_ensure_file(file) == IF file = <<>> THEN << <<HeaderLine>> >> ELSE file

\* Faulty variant: the row is written through a handle opened with "w", which truncates.
append_log_truncating(file, r) == << <<RowLine(r)>> >>

\* Faulty variant: the row is inserted right after the header instead of at the end.
append_log_after_header(file, r) ==
    LET f == _ensure_file(file)
    IN  << <<Head(f[1])>> \o <<RowLine(r)>> \o Tail(f[1]) >>

\* append_log's effect on the file: _ensure_file(), then open(LOG_PATH, "a") and writerow.
append_log_file(file, r) ==
    LET f == _ensure_file(file)
    IN  << Append(f[1], RowLine(r)) >>

\* The texts pandas.read_csv reads as a missing value (its default na_values).
NA_VALUES == {"", "#N/A", "#N/A N/A", "#NA", "-1.#IND", "-1.#QNAN", "-NaN", "-nan", "1.#IND", "1.#QNAN", "<NA>", "N/A", "NA", "NULL", "NaN", "None", "n/a", "nan", "null"}

\* A text cell as read_csv returns it: <<>> for NaN, <<s>> for the text s.
ParseText(s) == IF s \in NA_VALUES THEN <<>> ELSE <<s>>

\* A data line as read_csv and load_logs' to_numeric(...).fillna(0) return it.  A header
\* line met as data gives the column names as texts and 0 for the numeric columns; the
\* remainder of an overwritten line has its cells under the wrong columns and short of
\* the schema, and the model keeps none of them.
ParseLine(line) ==
    IF line.kind = "header"
    THEN [timestamp |-> <<"timestamp">>, atm_id |-> <<"atm_id">>,
          predicted_issue |-> <<"predicted_issue">>, impact_score |-> 0,
          resolution_mode |-> <<"resolution_mode">>,
          eligibility_reason |-> <<"eligibility_reason">>,
          auto_resolution_time_sec |-> 0, automation_log |-> <<"automation_log">>]
    ELSE IF line.kind = "partial"
    THEN [timestamp |-> <<>>, atm_id |-> <<>>, predicted_issue |-> <<>>, impact_score |-> 0,
          resolution_mode |-> <<>>, eligibility_reason |-> <<>>,
          auto_resolution_time_sec |-> 0, automation_log |-> <<>>]
    ELSE [timestamp |-> ParseText(line.cells.timestamp),
          atm_id |-> ParseText(line.cells.atm_id),
          predicted_issue |-> ParseText(line.cells.predicted_issue),
          impact_score |-> line.cells.impact_score,
          resolution_mode |-> ParseText(line.cells.resolution_mode),
          eligibility_reason |-> ParseText(line.cells.eligibility_reason),
          auto_resolution_time_sec |-> line.cells.auto_resolution_time_sec,
          automation_log |-> ParseText(line.cells.automation_log)]

\* pd.read_csv(LOG_PATH): the first line names the columns, the others are the rows.
read_csv(file) ==
    IF file = <<>>
    THEN [error |-> "FileNotFoundError", columns |-> <<>>, rows |-> <<>>]
    ELSE IF file[1] = <<>>
    THEN [error |-> "EmptyDataError", columns |-> <<>>, rows |-> <<>>]
    ELSE [error |-> "none",
          columns |-> IF file[1][1].kind = "header" THEN file[1][1].columns ELSE <<"first record">>,
          rows |-> [i \in 1..(Len(file[1]) - 1) |-> ParseLine(file[1][i + 1])]]

\* load_logs after _ensure_file (lines 118-127): read_csv, the two empty cases, and the
\* numeric columns (typed in ParseLine).
load_logs_body(file) ==
    LET r == read_csv(file)
    IN  IF r.error = "EmptyDataError" \/ (r.error = "none" /\ r.rows = <<>>)
        THEN [error |-> "none", columns |-> LOG_COLUMNS, rows |-> <<>>]
        ELSE r

\* Faulty variant: load_logs reads without calling _ensure_file first.
load_logs_no_ensure(file) == load_logs_body(file)

\* load_logs' return value: _ensure_file(), then the read.
load_logs_result(file) == load_logs_body(_ensure_file(file))

RECURSIVE CountMode(_, _)
CountMode(rows, mode) ==
    IF rows = <<>> THEN 0
    ELSE (IF Head(rows).resolution_mode = <<mode>> THEN 1 ELSE 0) + CountMode(Tail(rows), mode)

RECURSIVE SumResolvedTimes(_)
SumResolvedTimes(rows) ==
    IF rows = <<>> THEN 0
    ELSE (IF Head(rows).resolution_mode = <<"AUTO_RESOLVED">> THEN Head(rows).auto_resolution_time_sec ELSE 0)
         + SumResolvedTimes(Tail(rows))

\* round(mean, 1) in tenths of a second, to the nearest tenth
MeanTenths(sum, n) == IF n = 0 THEN 0 ELSE (20 * sum + n) \div (2 * n)

\* Faulty variant: the summary is taken over the most recent record only.
log_summary_of_last_record(loaded) ==
    LET last == IF loaded.rows = <<>> THEN <<>> ELSE <<loaded.rows[Len(loaded.rows)]>>
    IN  [error |-> loaded.error,
         total_logged |-> Len(last),
         auto_resolved |-> CountMode(last, "AUTO_RESOLVED"),
         auto_attempted |-> CountMode(last, "AUTO_ATTEMPTED"),
         manual_required |-> CountMode(last, "MANUAL_REQUIRED"),
         avg_auto_time_sec |-> MeanTenths(SumResolvedTimes(last), CountMode(last, "AUTO_RESOLVED"))]

\* get_log_summary's return value for what load_logs returned.
log_summary_of(loaded) ==
    IF loaded.error # "none"
    THEN [error |-> loaded.error, total_logged |-> 0, auto_resolved |-> 0, auto_attempted |-> 0,
          manual_required |-> 0, avg_auto_time_sec |-> 0]
    ELSE [error |-> "none",
          total_logged |-> Len(loaded.rows),
          auto_resolved |-> CountMode(loaded.rows, "AUTO_RESOLVED"),
          auto_attempted |-> CountMode(loaded.rows, "AUTO_ATTEMPTED"),
          manual_required |-> CountMode(loaded.rows, "MANUAL_REQUIRED"),
          avg_auto_time_sec |-> MeanTenths(SumResolvedTimes(loaded.rows), CountMode(loaded.rows, "AUTO_RESOLVED"))]

\* What the store holds before a read: "absent", "header only" or "records".
StoreState(file) ==
    IF file = <<>> THEN "absent"
    ELSE IF Len(file[1]) = 1 /\ file[1][1].kind = "header" THEN "header only"
    ELSE "records"

----------------------------------------------------------------------------
(* SpecLog: one caller using the archive, one call at a time *)

MaxLogRecords == 3
MaxLogBatch == 2

LogIssues == {"network_failure", ""}
LogModes == {"AUTO_RESOLVED", "AUTO_ATTEMPTED", "MANUAL_REQUIRED"}

\* Arguments of an append_log call (impact_score in 1/1000): 12,345.674 for an automated
\* incident, 1,012,500.000 for a manual one.
LogArgs(issue, mode) ==
    [atm_id |-> "ATM-0042",
     predicted_issue |-> issue,
     impact_score |-> IF mode = "MANUAL_REQUIRED" THEN 1012500000 ELSE 12345674,
     resolution_mode |-> mode,
     eligibility_reason |-> IF mode = "MANUAL_REQUIRED" THEN ReasonEscalated.text ELSE ReasonEligible.text,
     auto_resolution_time_sec |-> IF mode = "MANUAL_REQUIRED" THEN 0 ELSE 45,
     automation_log |-> IF mode = "MANUAL_REQUIRED" THEN "[SKIP]" ELSE "[START]"]

LogInputs == {LogArgs(issue, mode) : issue \in LogIssues, mode \in LogModes}

LogBatches == UNION {[1..n -> LogInputs] : n \in 0..MaxLogBatch}

RecordOf(a) ==
    LogRecord(a.atm_id, a.predicted_issue, a.impact_score, a.resolution_mode,
              a.eligibility_reason, a.auto_resolution_time_sec, a.automation_log)

RECURSIVE AppendAll(_, _)
\* The loop of append_logs_from_dataframe: append_log for every row, in row order.
AppendAll(file, rows) ==
    IF rows = <<>> THEN file
    ELSE AppendAll(append_log_file(file, RecordOf(Head(rows))), Tail(rows))

\* Consecutive equal entries of the read history are kept once.
Noted(history, entry) ==
    IF history # <<>> /\ history[Len(history)] = entry THEN history ELSE Append(history, entry)

append_log ==
    \E a \in LogInputs :
        /\ Len(appended) < MaxLogRecords
        /\ log_file' = append_log_file(log_file, RecordOf(a))
        /\ appended' = Append(appended, a)
        /\ UNCHANGED <<last_read, read_counts, gateVars, autoVars, concVars, callVars, pipeVars>>

append_logs_from_dataframe ==
    \E batch \in LogBatches :
        /\ Len(appended) + Len(batch) <= MaxLogRecords
        /\ log_file' = AppendAll(_ensure_file(log_file), batch)
        /\ appended' = appended \o batch
        /\ UNCHANGED <<last_read, read_counts, gateVars, autoVars, concVars, callVars, pipeVars>>

load_logs ==
    LET loaded == load_logs_result(log_file)
    IN  /\ log_file' = _ensure_file(log_file)
        /\ last_read' = <<[call |-> "load_logs", store |-> StoreState(log_file), result |-> loaded]>>
        /\ read_counts' = Noted(read_counts, [count |-> Len(loaded.rows), appended |-> Len(appended)])
        /\ UNCHANGED <<appended, gateVars, autoVars, concVars, callVars, pipeVars>>

get_log_summary ==
    LET loaded == load_logs_result(log_file)
    IN  /\ log_file' = _ensure_file(log_file)
        /\ last_read' = <<[call |-> "get_log_summary", store |-> StoreState(log_file), result |-> log_summary_of(loaded)]>>
        /\ UNCHANGED <<appended, read_counts, gateVars, autoVars, concVars, callVars, pipeVars>>

InitLog ==
    /\ log_file = <<>>
    /\ appended = <<>>
    /\ last_read = <<>>
    /\ read_counts = <<>>
    /\ IdleGate /\ IdleAuto /\ IdleConc /\ IdleCall /\ IdlePipe

NextLog == append_log \/ append_logs_from_dataframe \/ load_logs \/ get_log_summary

SpecLog == InitLog /\ [][NextLog]_vars

\* C6: with one writer, every load_logs returns as many records as were appended before
\* it, and no load_logs returns fewer records than an earlier one.
C6_CountMonotone ==
    /\ \A i \in DOMAIN read_counts : read_counts[i].count = read_counts[i].appended
    /\ \A i \in DOMAIN read_counts : \A j \in DOMAIN read_counts :
           i <= j => read_counts[i].count <= read_counts[j].count
    /\ log_file # <<>> => Len(load_logs_result(log_file).rows) = Len(appended)

\* Reads before and after appends: the first saw nothing, a later one saw two records.
C6_Witness ==
    /\ Len(read_counts) >= 2
    /\ read_counts[1].count = 0
    /\ read_counts[Len(read_counts)].count >= 2

\* C8: once anything was appended the file is the header line, once, followed by exactly
\* the appended records in insertion order, and load_logs returns them in that order.
C8_HeaderOnceThenAppendOnly ==
    appended # <<>> =>
        /\ log_file = << <<HeaderLine>> \o [i \in DOMAIN appended |-> RowLine(RecordOf(appended[i]))] >>
        /\ load_logs_result(log_file).rows =
               [i \in DOMAIN appended |-> ParseLine(RowLine(RecordOf(appended[i])))]
        /\ load_logs_result(log_file).columns = LOG_COLUMNS

\* Three records, the first and the last different, stored behind one header.
C8_Witness ==
    /\ Len(appended) = 3
    /\ appended[1] # appended[3]
    /\ Len(log_file[1]) = 4
    /\ log_file[1][1] = HeaderLine
    /\ last_read # <<>> /\ last_read[1].call = "load_logs"
    /\ Len(last_read[1].result.rows) = 3

\* How many of the records handed to the store so far, over all batches, have the mode.
AppendedWithMode(mode) == Cardinality({i \in DOMAIN appended : appended[i].resolution_mode = mode})

\* C22: every get_log_summary reports the whole store: total_logged is the number of
\* records of all the batches appended so far, and the three per-mode counts are the
\* counts over all of them, not over the latest batch.
C22_SummaryCoversAllBatches ==
    [][get_log_summary =>
          /\ last_read'[1].result.total_logged = Len(appended)
          /\ last_read'[1].result.auto_resolved = AppendedWithMode("AUTO_RESOLVED")
          /\ last_read'[1].result.auto_attempted = AppendedWithMode("AUTO_ATTEMPTED")
          /\ last_read'[1].result.manual_required = AppendedWithMode("MANUAL_REQUIRED")]_vars

\* A summary of three records, which no single batch holds, with two modes among them.
C22_Witness ==
    /\ Len(appended) = MaxLogBatch + 1
    /\ appended[1].resolution_mode # appended[Len(appended)].resolution_mode
    /\ last_read # <<>> /\ last_read[1].call = "get_log_summary"
    /\ last_read[1].result.total_logged = Len(appended)
    /\ last_read[1].result.total_logged > MaxLogBatch

\* C9 as stated: every record load_logs returns has the resolution_mode and the
\* predicted_issue it was appended with and its impact_score rounded to 2 decimals.
C9_RoundTrip ==
    last_read # <<>> /\ last_read[1].call = "load_logs" =>
        \A i \in DOMAIN last_read[1].result.rows :
            /\ last_read[1].result.rows[i].resolution_mode = <<appended[i].resolution_mode>>
            /\ last_read[1].result.rows[i].predicted_issue = <<appended[i].predicted_issue>>
            /\ last_read[1].result.rows[i].impact_score = Round2(appended[i].impact_score)

\* C10: load_logs and get_log_summary on an absent or header-only store raise nothing and
\* return no rows under the LOG_COLUMNS schema, resp. a summary of zeros.
C10_EmptyStoreReads ==
    last_read # <<>> /\ last_read[1].store \in {"absent", "header only"} =>
        /\ last_read[1].result.error = "none"
        /\ last_read[1].call = "load_logs" =>
               /\ last_read[1].result.columns = LOG_COLUMNS
               /\ last_read[1].result.rows = <<>>
        /\ last_read[1].call = "get_log_summary" =>
               /\ last_read[1].result.total_logged = 0
               /\ last_read[1].result.auto_resolved = 0
               /\ last_read[1].result.auto_attempted = 0
               /\ last_read[1].result.manual_required = 0
               /\ last_read[1].result.avg_auto_time_sec = 0

\* A read of the store before it existed.
C10_Witness ==
    /\ last_read # <<>>
    /\ last_read[1].store = "absent"
    /\ last_read[1].call = "get_log_summary"
    /\ last_read[1].result.total_logged = 0

----------------------------------------------------------------------------
(* SpecConc: several callers of append_log / load_logs, interleaved step by step *)

MaxCallers == 2
MaxCallerOps == 2

Callers == 1..MaxCallers

\* The record caller p appends: its own atm_id.
CallerArgs(p) ==
    [LogArgs("network_failure", "AUTO_RESOLVED") EXCEPT !.atm_id = <<"ATM-0001", "ATM-0002", "ATM-0003">>[p]]

\* What is left of a line whose first bytes were overwritten by the header.
PartialLine(line) == [kind |-> "partial", rest |-> line]

\* A caller enters append_log or load_logs; both start with _ensure_file().
Call(p) ==
    \E o \in {"append_log", "load_logs"} :
        /\ pc[p] = "idle"
        /\ done_ops[p] < MaxCallerOps
        /\ op' = [op EXCEPT ![p] = o]
        /\ pc' = [pc EXCEPT ![p] = "exists"]
        /\ UNCHANGED <<done_ops, logVars, gateVars, autoVars, callVars, pipeVars>>

\* _ensure_file, line 49: if not os.path.exists(LOG_PATH)
EnsureExists(p) ==
    /\ pc[p] = "exists"
    /\ pc' = [pc EXCEPT ![p] = IF log_file = <<>> THEN "open_w" ELSE "ensured"]
    /\ UNCHANGED <<op, done_ops, logVars, gateVars, autoVars, callVars, pipeVars>>

\* _ensure_file, line 50: open(LOG_PATH, "w") creates the file or truncates it to nothing.
EnsureOpen(p) ==
    /\ pc[p] = "open_w"
    /\ log_file' = << <<>> >>
    /\ pc' = [pc EXCEPT ![p] = "header"]
    /\ UNCHANGED <<op, done_ops, appended, last_read, read_counts, gateVars, autoVars, callVars, pipeVars>>

\* The file after the header's bytes are written at offset 0.  On a file that has grown
\* meanwhile they overwrite the start of its first line: a longer line keeps its tail, a
\* line of the header's length is replaced.
HeaderOutcomes(lines) ==
    IF lines = <<>> THEN {<<HeaderLine>>}
    ELSE IF Head(lines).kind = "header" THEN {lines}
    ELSE {<<HeaderLine, PartialLine(Head(lines))>> \o Tail(lines), <<HeaderLine>> \o Tail(lines)}

\* _ensure_file, lines 51-52: writeheader(), flushed when the "w" handle closes.
EnsureWriteHeader(p) ==
    /\ pc[p] = "header"
    /\ \E lines \in HeaderOutcomes(log_file[1]) : log_file' = <<lines>>
    /\ pc' = [pc EXCEPT ![p] = "ensured"]
    /\ UNCHANGED <<op, done_ops, appended, last_read, read_counts, gateVars, autoVars, callVars, pipeVars>>

\* append_log, line 81: open(LOG_PATH, "a"), which creates nothing here and moves nothing.
OpenAppend(p) ==
    /\ pc[p] = "ensured" /\ op[p] = "append_log"
    /\ pc' = [pc EXCEPT ![p] = "row"]
    /\ UNCHANGED <<op, done_ops, logVars, gateVars, autoVars, callVars, pipeVars>>

\* append_log, lines 82-83: writerow(record), written at the end of the file as it is now.
WriteRow(p) ==
    /\ pc[p] = "row"
    /\ log_file' = << Append(log_file[1], RowLine(RecordOf(CallerArgs(p)))) >>
    /\ appended' = Append(appended, CallerArgs(p))
    /\ pc' = [pc EXCEPT ![p] = "idle"]
    /\ done_ops' = [done_ops EXCEPT ![p] = @ + 1]
    /\ UNCHANGED <<op, last_read, read_counts, gateVars, autoVars, callVars, pipeVars>>

\* load_logs, lines 118-127: read_csv on the file as it is now.
ReadCsv(p) ==
    /\ pc[p] = "ensured" /\ op[p] = "load_logs"
    /\ last_read' = <<[call |-> "load_logs", store |-> StoreState(log_file), result |-> load_logs_body(log_file)]>>
    /\ pc' = [pc EXCEPT ![p] = "idle"]
    /\ done_ops' = [done_ops EXCEPT ![p] = @ + 1]
    /\ UNCHANGED <<op, log_file, appended, read_counts, gateVars, autoVars, callVars, pipeVars>>

InitConc ==
    /\ pc = [p \in Callers |-> "idle"]
    /\ op = [p \in Callers |-> "none"]
    /\ done_ops = [p \in Callers |-> 0]
    /\ IdleLog /\ IdleGate /\ IdleAuto /\ IdleCall /\ IdlePipe

NextConc ==
    \E p \in Callers :
        \/ Call(p)
        \/ EnsureExists(p)
        \/ EnsureOpen(p)
        \/ EnsureWriteHeader(p)
        \/ OpenAppend(p)
        \/ WriteRow(p)
        \/ ReadCsv(p)

SpecConc == InitConc /\ [][NextConc]_vars

\* C7 as stated: under every interleaving the file, once it holds anything, is the header
\* line, once and first, followed by every record appended so far, whole and in the order
\* the row writes happened: nothing lost, no second or late header, no partial record.
C7_ConcurrentAppendsSafe ==
    log_file # <<>> /\ log_file[1] # <<>> =>
        log_file[1] = <<HeaderLine>> \o [i \in DOMAIN appended |-> RowLine(RecordOf(appended[i]))]

----------------------------------------------------------------------------
(* SpecRun: direct calls of run_automation and get_recommended_action *)

MaxCalls == 2

RunIssues == {"network_failure", "unknown", ""}
RunImpacts == {Rupees(18000), Rupees(60000)}
RunSeeds == {<<>>, <<0>>, <<32>>, <<42>>}

RunInputs ==
    [predicted_issue : RunIssues, impact_score : RunImpacts, downtime_minutes : {25},
     complaint_count : {8}, escalation_status : {<<"Normal", "Monitor">>}, seed : RunSeeds]

\* The five keys of ACTION_MAP and strings that are not keys: "unknown" (the default of
\* row.get), the empty string and a key in another case.
IssueInputs == DOMAIN ACTION_MAP \cup {"unknown", "", "NETWORK_FAILURE"}

\* One call, as the history keeps it: function, arguments, return value and the clock
\* reading (start_time) at the call.
CallRecord(fn, args, ret) == [fn |-> fn, args |-> args, ret |-> ret, at |-> clock]

CallRunAutomation ==
    /\ Len(call_log) < MaxCalls
    /\ \E a \in RunInputs :
          call_log' = Append(call_log,
              CallRecord("run_automation", a,
                         run_automation(a.predicted_issue, a.impact_score, a.downtime_minutes,
                                        a.complaint_count, a.escalation_status, a.seed)))
    /\ clock' = clock + 1
    /\ UNCHANGED <<gateVars, autoVars, logVars, concVars, pipeVars>>

CallGetRecommendedAction ==
    /\ Len(call_log) < MaxCalls
    /\ \E issue \in IssueInputs :
          call_log' = Append(call_log,
              CallRecord("get_recommended_action", [predicted_issue |-> issue],
                         get_recommended_action(issue)))
    /\ clock' = clock + 1
    /\ UNCHANGED <<gateVars, autoVars, logVars, concVars, pipeVars>>

InitRun ==
    /\ call_log = <<>>
    /\ clock = 0
    /\ IdleGate /\ IdleAuto /\ IdleLog /\ IdleConc /\ IdlePipe

NextRun == CallRunAutomation \/ CallGetRecommendedAction

SpecRun == InitRun /\ [][NextRun]_vars

\* The smoke-test inputs of automation_engine.py, whatever the seed.
IsSmokeTest(a) ==
    /\ a.predicted_issue = "network_failure"
    /\ a.impact_score = Rupees(18000)
    /\ a.downtime_minutes = 25
    /\ a.complaint_count = 8
    /\ ~Contains(a.escalation_status, "ESCALATED")

C16_UnknownIssueFallsBack ==
    \A i \in DOMAIN call_log :
        /\ "raised" \notin DOMAIN call_log[i].ret
        /\ call_log[i].fn = "get_recommended_action"
           /\ call_log[i].args.predicted_issue \notin DOMAIN ACTION_MAP
           => call_log[i].ret = [action |-> "Log incident; assign to L1 support for triage.",
                                 sla_minutes |-> 30, team |-> "L1 Support"]
        /\ call_log[i].fn = "run_automation"
           /\ call_log[i].args.predicted_issue \notin DOMAIN PLAYBOOKS
           /\ call_log[i].ret.eligibility_reason = ReasonEligible
           => /\ call_log[i].ret.steps_executed =
                     <<simulate_step("LOG_INCIDENT"), simulate_step("TICKET_CREATE")>>
              /\ call_log[i].ret.resolution_mode =
                     IF FirstDraw(SeedOf(call_log[i].args.seed, call_log[i].args.impact_score)) < 10
                     THEN "AUTO_RESOLVED" ELSE "AUTO_ATTEMPTED"

\* The empty string got the fallback action, and an eligible "unknown" incident ran the
\* two fallback steps.
C16_Witness ==
    \E i, j \in DOMAIN call_log :
        /\ call_log[i].fn = "get_recommended_action"
        /\ call_log[i].args.predicted_issue = ""
        /\ call_log[i].ret.team = "L1 Support"
        /\ call_log[j].fn = "run_automation"
        /\ call_log[j].args.predicted_issue = "unknown"
        /\ Len(call_log[j].ret.steps_executed) = 2

\* The run_automation calls that got past the eligibility gate.
ReachedExecution(k) ==
    /\ k \in DOMAIN call_log
    /\ call_log[k].fn = "run_automation"
    /\ call_log[k].ret.eligibility_reason = ReasonEligible

----------------------------------------------------------------------------
(* SpecEsc: direct calls of should_escalate and escalation_status *)

\* Both thresholds, their lower neighbours, zero and the spec's large values.
EscImpacts == {0, Rupees(100000) - 1, Rupees(100000), Rupees(1012500)}
EscDowntimes == {0, 119, 120, 200}

EscInputs == [impact_score : EscImpacts, downtime_minutes : EscDowntimes]

CallShouldEscalate ==
    /\ Len(call_log) < MaxCalls
    /\ \E a \in EscInputs :
          call_log' = Append(call_log,
              CallRecord("should_escalate", a, should_escalate(a.impact_score, a.downtime_minutes)))
    /\ clock' = clock + 1
    /\ UNCHANGED <<gateVars, autoVars, logVars, concVars, pipeVars>>

CallEscalationStatus ==
    /\ Len(call_log) < MaxCalls
    /\ \E a \in EscInputs :
          call_log' = Append(call_log,
              CallRecord("escalation_status", a, escalation_status(a.impact_score, a.downtime_minutes)))
    /\ clock' = clock + 1
    /\ UNCHANGED <<gateVars, autoVars, logVars, concVars, pipeVars>>

InitEsc ==
    /\ call_log = <<>>
    /\ clock = 0
    /\ IdleGate /\ IdleAuto /\ IdleLog /\ IdleConc /\ IdlePipe

NextEsc == CallShouldEscalate \/ CallEscalationStatus

SpecEsc == InitEsc /\ [][NextEsc]_vars

\* C17: the text escalation_status returns contains "ESCALATED" iff impact_score >= 100,000
\* or downtime_minutes >= 120; it then lists the impact reason iff impact_score >= 100,000
\* and the downtime reason iff downtime_minutes >= 120, and nothing else; otherwise it is
\* the normal-monitoring message.
C17_StatusNamesTriggeredReasons ==
    \A i \in DOMAIN call_log :
        call_log[i].fn = "escalation_status" =>
            LET impact_hit == call_log[i].args.impact_score >= Rupees(100000)
                downtime_hit == call_log[i].args.downtime_minutes >= 120
                text == call_log[i].ret
            IN  /\ Contains(text, "ESCALATED") <=> (impact_hit \/ downtime_hit)
                /\ Contains(text, "Impact exceeds threshold") <=> impact_hit
                /\ Contains(text, "Downtime exceeds threshold") <=> downtime_hit
                /\ (impact_hit \/ downtime_hit) =>
                       Len(text) = 1 + (IF impact_hit THEN 1 ELSE 0) + (IF downtime_hit THEN 1 ELSE 0)
                /\ ~(impact_hit \/ downtime_hit) => text = <<"Normal", "Monitor">>

\* An incident over both thresholds got both reasons, and one under both got the normal message.
C17_Witness ==
    \E i, j \in DOMAIN call_log :
        /\ call_log[i].fn = "escalation_status"
        /\ call_log[i].args = [impact_score |-> Rupees(1012500), downtime_minutes |-> 200]
        /\ call_log[i].ret = <<"ESCALATED", "Impact exceeds threshold", "Downtime exceeds threshold">>
        /\ call_log[j].fn = "escalation_status"
        /\ call_log[j].args = [impact_score |-> Rupees(100000) - 1, downtime_minutes |-> 119]
        /\ call_log[j].ret = <<"Normal", "Monitor">>

\* C18: should_escalate is monotonic: if it returned True for (i, d), it returns True for
\* every (i2, d2) with i2 >= i and d2 >= d.
C18_EscalationMonotonic ==
    \A i, j \in DOMAIN call_log :
        /\ call_log[i].fn = "should_escalate"
        /\ call_log[j].fn = "should_escalate"
        /\ call_log[i].ret = TRUE
        /\ call_log[j].args.impact_score >= call_log[i].args.impact_score
        /\ call_log[j].args.downtime_minutes >= call_log[i].args.downtime_minutes
        => call_log[j].ret = TRUE

\* Escalation at exactly 120 minutes, and again for a longer outage with a larger impact.
C18_Witness ==
    \E i, j \in DOMAIN call_log :
        /\ call_log[i].fn = "should_escalate"
        /\ call_log[j].fn = "should_escalate"
        /\ call_log[i].args = [impact_score |-> 0, downtime_minutes |-> 120]
        /\ call_log[j].args = [impact_score |-> Rupees(100000) - 1, downtime_minutes |-> 200]
        /\ call_log[i].ret = TRUE
        /\ call_log[j].ret = TRUE

----------------------------------------------------------------------------
(* automation_engine.py: metrics.  Percentages and mean times are counted in tenths. *)

MANUAL_BASELINE_MINUTES == 120

\* Faulty variant: the AUTO_ATTEMPTED count matches on the "AUTO" prefix and so also
\* counts the AUTO_RESOLVED rows.
ModeCountByPrefix(rows, mode) ==
    Cardinality({i \in DOMAIN rows :
        IF mode = "AUTO_ATTEMPTED"
        THEN rows[i].resolution_mode \in {"AUTO_ATTEMPTED", "AUTO_RESOLVED"}
        ELSE rows[i].resolution_mode = mode})

\* (df["resolution_mode"] == mode).sum()
ModeCount(rows, mode) == Cardinality({i \in DOMAIN rows : rows[i].resolution_mode = mode})

\* round(num / den, 0) as Python rounds: to the nearest integer, a tie to the even one.
RoundHalfEven(num, den) ==
    LET q == num \div den
        r == num % den
    IN  IF 2 * r < den THEN q
        ELSE IF 2 * r > den THEN q + 1
        ELSE IF q % 2 = 0 THEN q ELSE q + 1

\* Faulty variant: round(count / total * 100), a whole percentage.
PctRoundedToWhole(count, total) == 10 * RoundHalfEven(count * 100, total)

\* Faulty variant: the count itself is reported as the percentage, as if the batch
\* always held 100 incidents.
PctOfHundred(count, total) == RoundHalfEven(count * 1000, 100)

\* round(count / total * 100, 1), in tenths of a percent
Pct(count, total) == RoundHalfEven(count * 1000, total)

RECURSIVE SumOver(_, _, _)
SumOver(rows, mode, column) ==
    IF rows = <<>> THEN 0
    ELSE (IF Head(rows).resolution_mode = mode THEN Head(rows)[column] ELSE 0)
         + SumOver(Tail(rows), mode, column)

\* The ATM ids that value_counts() reports more than once.
RepeatAtmIds(rows) ==
    {a \in {rows[i].atm_id : i \in DOMAIN rows} :
        Cardinality({i \in DOMAIN rows : rows[i].atm_id = a}) > 1}

\* compute_automation_metrics: the returned dict; {} (the empty record) for an empty batch.
compute_automation_metrics(rows) ==
    LET total == Len(rows)
        auto_resolved == ModeCount(rows, "AUTO_RESOLVED")
        manual_req == ModeCount(rows, "MANUAL_REQUIRED")
        auto_attempted == ModeCount(rows, "AUTO_ATTEMPTED")
        humans_needed == manual_req + auto_attempted
    IN  IF total = 0 THEN <<>>
        ELSE [total_incidents |-> total,
              auto_resolved_count |-> auto_resolved,
              manual_required_count |-> manual_req,
              auto_attempted_count |-> auto_attempted,
              auto_resolved_pct |-> Pct(auto_resolved, total),
              manual_required_pct |-> Pct(manual_req, total),
              auto_attempted_pct |-> Pct(auto_attempted, total),
              avg_auto_time_sec |-> IF auto_resolved = 0 THEN 0
                                    ELSE RoundHalfEven(10 * SumOver(rows, "AUTO_RESOLVED", "auto_resolution_time_sec"),
                                                       auto_resolved),
              manual_reduction_pct |-> Pct(total - humans_needed, total),
              downtime_saved_minutes |-> auto_resolved * MANUAL_BASELINE_MINUTES,
              revenue_auto_contained |-> SumOver(rows, "AUTO_RESOLVED", "impact_score"),
              repeat_atm_count |-> Cardinality(RepeatAtmIds(rows)),
              repeat_atm_ids |-> RepeatAtmIds(rows),
              low_confidence_count |->
                  Cardinality({i \in DOMAIN rows : rows[i].eligibility_reason.text = "ML confidence < threshold"})]

----------------------------------------------------------------------------
(* SpecMetrics: compute_automation_metrics over a batch of resolution records *)

MaxMetricRows == 3

\* The outcomes the automation layer gives: a resolved and a failed network_failure
\* playbook, a resolved fallback playbook, a refusal by the risk gate and one by the ML
\* confidence gate.
MetricOutcomes ==
    {[resolution_mode |-> "AUTO_RESOLVED", auto_resolution_time_sec |-> 45, impact_score |-> Rupees(18000), eligibility_reason |-> ReasonEligible],
     [resolution_mode |-> "AUTO_RESOLVED", auto_resolution_time_sec |-> 10, impact_score |-> Rupees(50000), eligibility_reason |-> ReasonEligible],
     [resolution_mode |-> "AUTO_ATTEMPTED", auto_resolution_time_sec |-> 45, impact_score |-> Rupees(18000), eligibility_reason |-> ReasonEligible],
     [resolution_mode |-> "MANUAL_REQUIRED", auto_resolution_time_sec |-> 0, impact_score |-> Rupees(60000), eligibility_reason |-> ReasonImpact],
     [resolution_mode |-> "MANUAL_REQUIRED", auto_resolution_time_sec |-> 0, impact_score |-> Rupees(18000), eligibility_reason |-> ReasonConfidence(60)]}

MetricAtmIds == {"ATM-1001", "ATM-1002"}

MetricRow(atm_id, o) ==
    [atm_id |-> atm_id, resolution_mode |-> o.resolution_mode,
     auto_resolution_time_sec |-> o.auto_resolution_time_sec,
     impact_score |-> o.impact_score, eligibility_reason |-> o.eligibility_reason]

MetricRows == {MetricRow(a, o) : a \in MetricAtmIds, o \in MetricOutcomes}

MetricBatches == UNION {[1..n -> MetricRows] : n \in 0..MaxMetricRows}

CallComputeMetrics ==
    /\ stage = "results"
    /\ call_log = <<>>
    /\ call_log' = <<CallRecord("compute_automation_metrics", df, compute_automation_metrics(df))>>
    /\ clock' = clock + 1
    /\ UNCHANGED <<gateVars, autoVars, logVars, concVars, pipeVars>>

InitMetrics ==
    /\ df \in MetricBatches
    /\ threshold = 0
    /\ stage = "results"
    /\ calls = <<>>
    /\ IdleCall /\ IdleGate /\ IdleLog /\ IdleConc /\ IdlePipe

NextMetrics == CallComputeMetrics

SpecMetrics == InitMetrics /\ [][NextMetrics]_vars

\* C19: for a batch whose rows all carry one of the three resolution modes, the metrics
\* report total_incidents = the number of rows and auto_resolved_count +
\* auto_attempted_count + manual_required_count = total_incidents.
C19_CountsPartitionBatch ==
    \A k \in DOMAIN call_log :
        /\ call_log[k].fn = "compute_automation_metrics"
        /\ call_log[k].args # <<>>
        /\ \A i \in DOMAIN call_log[k].args :
              call_log[k].args[i].resolution_mode \in {"AUTO_RESOLVED", "AUTO_ATTEMPTED", "MANUAL_REQUIRED"}
        => /\ call_log[k].ret.total_incidents = Len(call_log[k].args)
           /\ call_log[k].ret.auto_resolved_count + call_log[k].ret.auto_attempted_count
                  + call_log[k].ret.manual_required_count = call_log[k].ret.total_incidents

\* The metrics of a batch holding all three modes.
C19_Witness ==
    \E k \in DOMAIN call_log :
        /\ call_log[k].fn = "compute_automation_metrics"
        /\ Len(call_log[k].args) = 3
        /\ call_log[k].ret.auto_resolved_count = 1
        /\ call_log[k].ret.auto_attempted_count = 1
        /\ call_log[k].ret.manual_required_count = 1

\* Whether pct (in tenths of a percent) is count / total * 100 rounded to one decimal.
IsPctOf(pct, count, total) ==
    /\ 2 * (pct * total - 1000 * count) <= total
    /\ 2 * (1000 * count - pct * total) <= total

\* C21: compute_automation_metrics on an empty batch returns the empty dict, raising
\* nothing; on a non-empty batch each of the three percentages is its count divided by
\* total_incidents (the number of rows), times 100, rounded to one decimal.
C21_EmptyBatchAndPercentBase ==
    \A k \in DOMAIN call_log :
        call_log[k].fn = "compute_automation_metrics" =>
            IF call_log[k].args = <<>>
            THEN DOMAIN call_log[k].ret = {}
            ELSE LET m == call_log[k].ret
                     rows == call_log[k].args
                     n(mode) == Cardinality({i \in DOMAIN rows : rows[i].resolution_mode = mode})
                 IN  /\ m.total_incidents = Len(rows)
                     /\ IsPctOf(m.auto_resolved_pct, n("AUTO_RESOLVED"), Len(rows))
                     /\ IsPctOf(m.auto_attempted_pct, n("AUTO_ATTEMPTED"), Len(rows))
                     /\ IsPctOf(m.manual_required_pct, n("MANUAL_REQUIRED"), Len(rows))

\* The metrics of the empty batch were asked for and came back empty.
C21_Witness ==
    \E k \in DOMAIN call_log :
        /\ call_log[k].fn = "compute_automation_metrics"
        /\ call_log[k].args = <<>>
        /\ call_log[k].ret = <<>>

\* C20: for a non-empty batch the three percentages, each rounded to one decimal, sum to
\* 100 within one tenth (99.9, 100.0 or 100.1), and downtime_saved_minutes is
\* auto_resolved_count * 120.
C20_PercentagesAndDowntimeSaved ==
    \A k \in DOMAIN call_log :
        call_log[k].fn = "compute_automation_metrics" /\ call_log[k].args # <<>> =>
            LET m == call_log[k].ret
                pct_sum == m.auto_resolved_pct + m.auto_attempted_pct + m.manual_required_pct
            IN  /\ pct_sum \in {999, 1000, 1001}
                /\ m.downtime_saved_minutes = m.auto_resolved_count * 120

\* Thirds: 33.3 + 33.3 + 33.3 = 99.9, and one resolved incident saves 120 minutes.
C20_Witness ==
    \E k \in DOMAIN call_log :
        /\ call_log[k].fn = "compute_automation_metrics"
        /\ call_log[k].ret # <<>>
        /\ call_log[k].ret.auto_resolved_pct = 333
        /\ call_log[k].ret.auto_attempted_pct = 333
        /\ call_log[k].ret.manual_required_pct = 333
        /\ call_log[k].ret.downtime_saved_minutes = 120

----------------------------------------------------------------------------
(* SpecBatch: the layers of SpecAuto followed by layer 6, append_logs_from_dataframe, *)
(* taken one row at a time so that a stop between two rows is a state.               *)

\* row.get(key, default)
Get(row, key, default) == IF key \in DOMAIN row THEN row[key] ELSE default

\* The arguments append_logs_from_dataframe passes to append_log for one row (lines
\* 98-106): impact_score goes from paise to 1/1000 rupee, the reason to its text and the
\* log to its first line.
RowLogArgs(row) ==
    [atm_id |-> Get(row, "atm_id", ""),
     predicted_issue |-> Get(row, "predicted_issue", ""),
     impact_score |-> 10 * Get(row, "impact_score", 0),
     resolution_mode |-> Get(row, "resolution_mode", ""),
     eligibility_reason |-> IF "eligibility_reason" \in DOMAIN row THEN row.eligibility_reason.text ELSE "",
     auto_resolution_time_sec |-> Get(row, "auto_resolution_time_sec", 0),
     automation_log |-> IF "automation_log" \in DOMAIN row THEN Head(row.automation_log) ELSE ""]

\* Faulty variant: the batch is persisted as soon as it has been processed, before the
\* automation layer has decided anything.
PersistAllowedBeforeAutomation(s) == s \in {"processed", "automated", "persisting"}

\* Faulty variant: the batch is persisted right after scoring, ahead of layers 3 to 5.
PersistAllowedOnceScored(s) == s \in {"scored", "automated", "persisting"}

\* run_pipeline calls append_logs_from_dataframe on the DataFrame automate_dataframe returned.
PersistAllowedAt(s) == s \in {"automated", "persisting"}

\* append_logs_from_dataframe, line 95: _ensure_file() before the loop.
PersistBegin ==
    /\ PersistAllowedAt(stage)
    /\ stage # "persisting"
    /\ log_file' = _ensure_file(log_file)
    /\ stage' = "persisting"
    /\ UNCHANGED <<df, threshold, calls, appended, last_read, read_counts, gateVars, concVars, callVars, pipeVars>>

\* One iteration of its loop: append_log for the next row of the batch.
PersistRow ==
    /\ stage = "persisting"
    /\ Len(appended) < Len(df)
    /\ log_file' = append_log_file(log_file, RecordOf(RowLogArgs(df[Len(appended) + 1])))
    /\ appended' = Append(appended, RowLogArgs(df[Len(appended) + 1]))
    /\ stage' = "persisting"
    /\ UNCHANGED <<df, threshold, calls, last_read, read_counts, gateVars, concVars, callVars, pipeVars>>

NextBatch == process_dataframe \/ automate_dataframe \/ PersistBegin \/ PersistRow

SpecBatch == InitAuto /\ [][NextBatch]_vars

\* C13: wherever batch processing stops, the archive holds exactly one entry for each of
\* the first rows of a batch that went through all layers, each with the row's terminal
\* resolution_mode; a row whose processing or persisting has not finished has no entry.
C13_OnlyCompletedIncidentsArchived ==
    /\ Len(appended) <= Len(df)
    /\ appended # <<>> => stage = "persisting"
    /\ \A k \in DOMAIN appended :
          /\ "resolution_mode" \in DOMAIN df[k]
          /\ appended[k].resolution_mode = df[k].resolution_mode
          /\ appended[k].resolution_mode \in {"AUTO_RESOLVED", "AUTO_ATTEMPTED", "MANUAL_REQUIRED"}
    /\ log_file # <<>> =>
          log_file[1] = <<HeaderLine>> \o [k \in DOMAIN appended |-> RowLine(RecordOf(appended[k]))]

\* Persisting stopped between the two incidents of a batch: the first has its entry,
\* the second has none.
C13_Witness ==
    /\ stage = "persisting"
    /\ Len(df) = 2
    /\ Len(appended) = 1
    /\ Len(log_file[1]) = 2
    /\ appended[1].resolution_mode = "AUTO_ATTEMPTED"

----------------------------------------------------------------------------
(* impact_scorer.py and pipeline.py: run_pipeline on a batch of raw incidents *)

ML_CONFIDENCE_THRESHOLD == 60
STABLE_DEMO == "Stable Demo Mode"
LIVE_SIM == "Live Simulation Mode"

\* A cell of a raw input column: a number, a missing value (NaN / None) or a text that
\* is not a number.
Num(n) == [kind |-> "num", val |-> n]
NaNCell == [kind |-> "nan", val |-> 0]
TextCell == [kind |-> "text", val |-> 0]

\* Faulty variant: the downtime is used as given, with no one-minute minimum.
calculate_impact_no_minimum(transaction_volume, avg_amount, downtime_minutes, complaint_count) ==
    RoundHalfEven(transaction_volume * avg_amount * downtime_minutes * (20 + complaint_count), 12)

\* calculate_impact, in paise, for whole rupee amounts:
\* round(volume * avg * (downtime / 60) * (1 + complaints * 0.05), 2).
calculate_impact(transaction_volume, avg_amount, downtime_minutes, complaint_count) ==
    LET downtime == IF downtime_minutes <= 0 THEN 1 ELSE downtime_minutes
    IN  RoundHalfEven(transaction_volume * avg_amount * downtime * (20 + complaint_count), 12)

\* predict_batch_with_confidence: what the trained forest may answer for one row.
PipeLabels == [predicted_issue : {"network_failure", "cash_out"}, ml_confidence : {59, 90}]

\* Layer 1.  clf.predict(X) raises ValueError when X holds a text; when X holds a NaN it
\* raises ValueError on a build whose forest rejects missing values and answers on a
\* build whose forest accepts them.  Otherwise the forest answers some label per row.
Classifications(rows) ==
    LET answers == {[raised |-> "none", labels |-> l] : l \in [DOMAIN rows -> PipeLabels]}
        refusal == {[raised |-> "ValueError", labels |-> <<>>]}
    IN  IF \E i \in DOMAIN rows : rows[i].transaction_volume.kind = "text" THEN refusal
        ELSE IF \E i \in DOMAIN rows : rows[i].transaction_volume.kind = "nan" THEN refusal \cup answers
        ELSE answers

\* Layers 1 and 2 for one row: the two classifier columns, then score_dataframe.  A NaN
\* volume gives a NaN impact_score without raising; NaN compares False with every
\* threshold, as the 0 kept in its place does, and impact_nan records that it is NaN.
ScoredRow(row, label) ==
    [atm_id |-> row.atm_id,
     predicted_issue |-> label.predicted_issue,
     ml_confidence |-> label.ml_confidence,
     impact_score |-> IF row.transaction_volume.kind = "num"
                      THEN calculate_impact(row.transaction_volume.val, row.avg_amount,
                                            row.downtime_minutes, row.complaint_count)
                      ELSE 0,
     impact_nan |-> row.transaction_volume.kind # "num",
     downtime_minutes |-> row.downtime_minutes,
     complaint_count |-> row.complaint_count]

\* Layers 3 and 4: process_dataframe adds the action columns and escalation_status.
ProcessedRow(row) ==
    [recommended_action |-> get_recommended_action(row.predicted_issue).action,
     sla_minutes |-> get_recommended_action(row.predicted_issue).sla_minutes,
     responsible_team |-> get_recommended_action(row.predicted_issue).team,
     escalation_status |-> escalation_status(row.impact_score, row.downtime_minutes)] @@ row

\* Layer 5 for one row: the four result columns of automate_dataframe.
AutomatedRow(row, idx, ml_confidence_threshold) ==
    LET result == automate_row(row, idx, ml_confidence_threshold)
    IN  [resolution_mode |-> result.resolution_mode,
         automation_log |-> result.automation_log,
         auto_resolution_time_sec |-> result.auto_resolution_time_sec,
         eligibility_reason |-> result.eligibility_reason] @@ row

\* The parameters automate_dataframe declares, and the keywords run_pipeline passes it.
AutomateDataframeParams == {"df", "ml_confidence_threshold"}
PipelineAutomateKeywords == {"ml_confidence_threshold", "deterministic"}

\* resolution_order and the sort key: _sort_mode ascending, then impact_score descending,
\* NaN last; rows with equal keys keep their order.
SortMode(row) ==
    CASE row.resolution_mode = "MANUAL_REQUIRED" -> 0
      [] row.resolution_mode = "AUTO_ATTEMPTED" -> 1
      [] row.resolution_mode = "AUTO_RESOLVED" -> 2
      [] OTHER -> 0

\* Faulty variant: a row also sorts before a row with the same mode and impact_score.
SortsBeforeOrTied(a, b) ==
    \/ SortMode(a) < SortMode(b)
    \/ /\ SortMode(a) = SortMode(b)
       /\ \/ ~a.impact_nan /\ b.impact_nan
          \/ ~a.impact_nan /\ ~b.impact_nan /\ a.impact_score >= b.impact_score

SortsBefore(a, b) ==
    \/ SortMode(a) < SortMode(b)
    \/ /\ SortMode(a) = SortMode(b)
       /\ \/ ~a.impact_nan /\ b.impact_nan
          \/ ~a.impact_nan /\ ~b.impact_nan /\ a.impact_score > b.impact_score

RECURSIVE InsertSorted(_, _)
InsertSorted(sorted, row) ==
    IF sorted = <<>> THEN <<row>>
    ELSE IF SortsBefore(row, Head(sorted)) THEN <<row>> \o sorted
    ELSE <<Head(sorted)>> \o InsertSorted(Tail(sorted), row)

RECURSIVE SortValues(_)
SortValues(rows) ==
    IF rows = <<>> THEN <<>>
    ELSE InsertSorted(SortValues(SubSeq(rows, 1, Len(rows) - 1)), rows[Len(rows)])

\* An outcome of run_pipeline: the exception that left it (with the layer that raised)
\* or the DataFrame returned, and the archive file afterwards.
Raised(exception, layer, file) ==
    [raised |-> exception, layer |-> layer, returned |-> <<>>, file |-> file]

Returned(rows, file) ==
    [raised |-> "none", layer |-> 0, returned |-> <<rows>>, file |-> file]

\* run_pipeline, from one answer of the classifier on.  No layer is wrapped in try/except.
run_pipeline_from(a, classification, file) ==
    LET scored == [i \in DOMAIN a.df |-> ScoredRow(a.df[i], classification.labels[i])]
        processed == [i \in DOMAIN scored |-> ProcessedRow(scored[i])]
        automated == [i \in DOMAIN processed |-> AutomatedRow(processed[i], i - 1, a.confidence_threshold)]
        batch == [i \in DOMAIN automated |-> RowLogArgs(automated[i])]
    IN  IF classification.raised # "none" THEN Raised(classification.raised, 1, file)
        ELSE IF ~(PipelineAutomateKeywords \subseteq AutomateDataframeParams) THEN Raised("TypeError", 5, file)
        ELSE IF a.persist_logs /\ ~a.archive_writable THEN Raised("OSError", 6, file)
        ELSE Returned(SortValues(automated),
                      IF a.persist_logs THEN AppendAll(_ensure_file(file), batch) ELSE file)

----------------------------------------------------------------------------
(* SpecPipe: one run_pipeline call *)

MaxPipeRows == 2

PipeVolumes == {Num(120), NaNCell, TextCell}

RawRows ==
    [atm_id : {"ATM-1001"}, transaction_volume : PipeVolumes, avg_amount : {100, 2000},
     downtime_minutes : {25, 90}, complaint_count : {8}]

RawBatches == UNION {[1..n -> RawRows] : n \in 0..MaxPipeRows}

\* The arguments of a call, and whether the archive can be written during it.
PipeCalls ==
    [df : RawBatches, confidence_threshold : {ML_CONFIDENCE_THRESHOLD}, persist_logs : BOOLEAN,
     execution_mode : {STABLE_DEMO, LIVE_SIM}, archive_writable : BOOLEAN]

WellFormed(row) == row.transaction_volume.kind = "num"

RunPipeline ==
    /\ pipe_args # <<>>
    /\ pipe_ret = <<>>
    /\ \E c \in Classifications(pipe_args[1].df) :
          LET outcome == run_pipeline_from(pipe_args[1], c, log_file)
          IN  /\ pipe_ret' = <<[raised |-> outcome.raised, layer |-> outcome.layer, returned |-> outcome.returned]>>
              /\ log_file' = outcome.file
    /\ UNCHANGED <<pipe_args, appended, last_read, read_counts, gateVars, autoVars, concVars, callVars>>

InitPipe ==
    /\ pipe_args \in {<<a>> : a \in PipeCalls}
    /\ pipe_ret = <<>>
    /\ IdleGate /\ IdleAuto /\ IdleLog /\ IdleConc /\ IdleCall

NextPipe == RunPipeline

SpecPipe == InitPipe /\ [][NextPipe]_vars

\* C11 as stated: when run_pipeline is called with persist_logs=True and the archive
\* cannot be written, the call still returns the decisions it computed (and reports the
\* persistence failure apart from them).
C11_DecisionsSurviveArchiveFailure ==
    /\ pipe_ret # <<>>
    /\ pipe_args[1].persist_logs
    /\ ~pipe_args[1].archive_writable
    /\ pipe_args[1].df # <<>>
    /\ \A i \in DOMAIN pipe_args[1].df : WellFormed(pipe_args[1].df[i])
    => /\ pipe_ret[1].raised = "none"
       /\ pipe_ret[1].returned # <<>>

\* C12 as stated: when one row of the batch is malformed, run_pipeline does not abort: it
\* returns a record for every well-formed row (and reports the bad row in a per-row error
\* list).
C12_MalformedRowSkipped ==
    /\ pipe_ret # <<>>
    /\ \E i \in DOMAIN pipe_args[1].df : ~WellFormed(pipe_args[1].df[i])
    /\ \E i \in DOMAIN pipe_args[1].df : WellFormed(pipe_args[1].df[i])
    => /\ pipe_ret[1].raised = "none"
       /\ pipe_ret[1].returned # <<>>
       /\ Len(pipe_ret[1].returned[1]) =
              Cardinality({i \in DOMAIN pipe_args[1].df : WellFormed(pipe_args[1].df[i])})

\* A call on a non-empty batch of well-formed incidents whose archive, if asked for, can
\* be written.
HealthyCall(a) ==
    /\ a.df # <<>>
    /\ \A i \in DOMAIN a.df : WellFormed(a.df[i])
    /\ a.persist_logs => a.archive_writable

\* C28 as stated: run_pipeline hands the execution mode to the automation layer: a Stable
\* Demo run returns every row with the resolution_mode drawn under the row's index as
\* seed, the same in every run; a Live Simulation run returns every row too, with
\* impact_score, action, escalation_status and gate eligibility fixed by the inputs and
\* only the AUTO_RESOLVED / AUTO_ATTEMPTED draw left open.
C28_ModeDecidesTheSeed ==
    pipe_ret # <<>> /\ HealthyCall(pipe_args[1]) =>
        /\ pipe_ret[1].raised = "none"
        /\ pipe_ret[1].returned # <<>>
        /\ Len(pipe_ret[1].returned[1]) = Len(pipe_args[1].df)
        /\ \A i \in DOMAIN pipe_ret[1].returned[1] :
               LET row == pipe_ret[1].returned[1][i]
               IN  /\ \E k \in DOMAIN pipe_args[1].df :
                          LET raw == pipe_args[1].df[k]
                          IN  row.impact_score = calculate_impact(raw.transaction_volume.val, raw.avg_amount,
                                                                  raw.downtime_minutes, raw.complaint_count)
                   /\ row.escalation_status = escalation_status(row.impact_score, row.downtime_minutes)
                   /\ row.recommended_action = get_recommended_action(row.predicted_issue).action
                   /\ (row.resolution_mode = "MANUAL_REQUIRED") <=> FailsAGate(row, pipe_args[1].confidence_threshold)
                   /\ pipe_args[1].execution_mode = STABLE_DEMO =>
                          \E idx \in 0..(Len(pipe_args[1].df) - 1) :
                              row.resolution_mode = AutomatedRow(row, idx, pipe_args[1].confidence_threshold).resolution_mode

\* C30 as stated: a run_pipeline call with persist_logs = False leaves the archive as it
\* was, no file created and nothing appended; a call with persist_logs = True leaves in
\* the archive exactly one record per input row, in input-row order.
C30_PersistFlagFramesArchive ==
    pipe_ret # <<>> /\ HealthyCall(pipe_args[1]) =>
        IF pipe_args[1].persist_logs
        THEN /\ log_file # <<>>
             /\ Len(log_file[1]) = 1 + Len(pipe_args[1].df)
             /\ log_file[1][1] = HeaderLine
             /\ \A i \in DOMAIN pipe_args[1].df :
                    LET raw == pipe_args[1].df[i]
                    IN  /\ log_file[1][i + 1].kind = "row"
                        /\ log_file[1][i + 1].cells.atm_id = raw.atm_id
                        /\ log_file[1][i + 1].cells.impact_score =
                               calculate_impact(raw.transaction_volume.val, raw.avg_amount,
                                                raw.downtime_minutes, raw.complaint_count)
        ELSE log_file = <<>>

----------------------------------------------------------------------------
(* SpecImpact: calculate_impact called directly *)

ImpactVolumes == {7, 150}
ImpactAmounts == {1, 2000}
ImpactDowntimes == {-5, 0, 1, 90}
ImpactComplaints == {0, 25}

ImpactInputs ==
    [transaction_volume : ImpactVolumes, avg_amount : ImpactAmounts,
     downtime_minutes : ImpactDowntimes, complaint_count : ImpactComplaints]

CallCalculateImpact ==
    \E a \in ImpactInputs :
        /\ Len(call_log) < MaxCalls
        /\ call_log' = Append(call_log,
               CallRecord("calculate_impact", a,
                   calculate_impact(a.transaction_volume, a.avg_amount, a.downtime_minutes, a.complaint_count)))
        /\ clock' = clock + 1
        /\ UNCHANGED <<gateVars, autoVars, logVars, concVars, pipeVars>>

InitImpact ==
    /\ IdleGate /\ IdleAuto /\ IdleLog /\ IdleConc /\ IdleCall /\ IdlePipe

NextImpact == CallCalculateImpact

SpecImpact == InitImpact /\ [][NextImpact]_vars

\* Whether score (in paise) is volume * avg * (downtime / 60) * (1 + 0.05 * complaints)
\* rupees rounded to 2 decimals: 12 * score is within 6 of volume * avg * downtime * (20 + complaints).
IsImpactOf(score, a, downtime) ==
    LET exact == a.transaction_volume * a.avg_amount * downtime * (20 + a.complaint_count)
    IN  /\ 12 * score - exact <= 6
        /\ exact - 12 * score <= 6

IsImpactCall(k) == k \in DOMAIN call_log /\ call_log[k].fn = "calculate_impact"

\* C23: calculate_impact gives a downtime of 0 or less the score of a downtime of one
\* minute; for a positive downtime the score is volume * avg * (downtime / 60) *
\* (1 + 0.05 * complaints) rounded to 2 decimals; calculate_impact(150, 2000, 90, 25)
\* is 1,012,500.00.
C23_ImpactFormula ==
    /\ \A k \in DOMAIN call_log : IsImpactCall(k) =>
           LET a == call_log[k].args
           IN  /\ a.downtime_minutes > 0 => IsImpactOf(call_log[k].ret, a, a.downtime_minutes)
               /\ a.downtime_minutes <= 0 => IsImpactOf(call_log[k].ret, a, 1)
               /\ a = [transaction_volume |-> 150, avg_amount |-> 2000,
                       downtime_minutes |-> 90, complaint_count |-> 25]
                      => call_log[k].ret = Rupees(1012500)
    /\ \A k \in DOMAIN call_log : \A j \in DOMAIN call_log :
           /\ IsImpactCall(k) /\ IsImpactCall(j)
           /\ call_log[k].args.downtime_minutes <= 0
           /\ call_log[j].args = [call_log[k].args EXCEPT !.downtime_minutes = 1]
           => call_log[k].ret = call_log[j].ret

\* The same incident scored with a negative downtime and with one minute, both non-zero.
C23_Witness ==
    \E k \in DOMAIN call_log : \E j \in DOMAIN call_log :
        /\ IsImpactCall(k) /\ IsImpactCall(j)
        /\ call_log[k].args.downtime_minutes < 0
        /\ call_log[j].args = [call_log[k].args EXCEPT !.downtime_minutes = 1]
        /\ call_log[k].ret = call_log[j].ret
        /\ call_log[k].ret > 0

----------------------------------------------------------------------------
(* SpecSort: the final sort of run_pipeline, applied to an automated batch and again *)
(* to its own result *)

MaxSortRows == 3

SortModes == {"MANUAL_REQUIRED", "AUTO_ATTEMPTED", "AUTO_RESOLVED"}
SortImpacts == {Rupees(18000), Rupees(60000)}
SortAtmIds == <<"ATM-1001", "ATM-1002", "ATM-1003", "ATM-1004">>

\* Automated batches: row i is the incident of the i-th ATM, so the rows are distinct.
SortBatches ==
    UNION {{[i \in 1..n |-> [atm_id |-> SortAtmIds[i], resolution_mode |-> m[i],
                              impact_score |-> v[i], impact_nan |-> FALSE]] :
               m \in [1..n -> SortModes], v \in [1..n -> SortImpacts]} : n \in 0..MaxSortRows}

\* Lines 134-140: df = df.sort_values(["_sort_mode", "impact_score"], ascending=[True, False]).
sort_values ==
    /\ stage \in {"automated", "sorted"}
    /\ Len(call_log) < MaxCalls
    /\ call_log' = Append(call_log, CallRecord("sort_values", df, SortValues(df)))
    /\ clock' = clock + 1
    /\ df' = SortValues(df)
    /\ stage' = "sorted"
    /\ UNCHANGED <<threshold, calls, gateVars, logVars, concVars, pipeVars>>

InitSort ==
    /\ df \in SortBatches
    /\ threshold = ML_CONFIDENCE_THRESHOLD
    /\ stage = "automated"
    /\ calls = <<>>
    /\ IdleGate /\ IdleLog /\ IdleConc /\ IdleCall /\ IdlePipe

NextSort == sort_values

SpecSort == InitSort /\ [][NextSort]_vars

\* The place of a mode in the returned order.
ModePlace(mode) ==
    CHOOSE p \in 1..3 : <<"MANUAL_REQUIRED", "AUTO_ATTEMPTED", "AUTO_RESOLVED">>[p] = mode

\* Where the row sits in the batch (the rows of a batch are distinct).
PlaceIn(rows, row) == CHOOSE p \in DOMAIN rows : rows[p] = row

\* C24: the sorted batch holds the rows of its input, all MANUAL_REQUIRED, then all
\* AUTO_ATTEMPTED, then all AUTO_RESOLVED, within a mode by descending impact_score;
\* rows with equal mode and impact_score keep their input order, and sorting a sorted
\* batch leaves it unchanged.
C24_SortOrderedStableIdempotent ==
    \A k \in DOMAIN call_log : call_log[k].fn = "sort_values" =>
        LET in == call_log[k].args
            out == call_log[k].ret
        IN  /\ Len(out) = Len(in)
            /\ {out[i] : i \in DOMAIN out} = {in[i] : i \in DOMAIN in}
            /\ \A i \in DOMAIN out : \A j \in DOMAIN out : i < j =>
                   /\ ModePlace(out[i].resolution_mode) <= ModePlace(out[j].resolution_mode)
                   /\ out[i].resolution_mode = out[j].resolution_mode =>
                          out[i].impact_score >= out[j].impact_score
            /\ \A i \in DOMAIN in : \A j \in DOMAIN in :
                   /\ i < j
                   /\ in[i].resolution_mode = in[j].resolution_mode
                   /\ in[i].impact_score = in[j].impact_score
                   => PlaceIn(out, in[i]) < PlaceIn(out, in[j])
            /\ k > 1 => out = in

\* A batch in reverse order, with two rows of equal mode and impact, sorted and sorted again.
C24_Witness ==
    /\ Len(call_log) = 2
    /\ call_log[1].fn = "sort_values" /\ call_log[2].fn = "sort_values"
    /\ call_log[1].ret # call_log[1].args
    /\ call_log[2].args = call_log[1].ret
    /\ call_log[2].ret = call_log[1].ret
    /\ \E i \in DOMAIN call_log[1].args : \E j \in DOMAIN call_log[1].args :
           /\ i < j
           /\ call_log[1].args[i].resolution_mode = call_log[1].args[j].resolution_mode
           /\ call_log[1].args[i].impact_score = call_log[1].args[j].impact_score

----------------------------------------------------------------------------
(* SpecStages: the layers of run_pipeline after classification, one layer at a time,  *)
(* each called as its own signature allows.  Every row keeps the calls made for it in  *)
(* `calls`, every layer its DataFrame before and after in `call_log`.                   *)

MaxStageRows == 2

\* Classified incidents: a small outage (impact 7,000) and the escalated one (1,012,500).
StageProfiles ==
    {[transaction_volume |-> 120, avg_amount |-> 100, downtime_minutes |-> 25, complaint_count |-> 8],
     [transaction_volume |-> 150, avg_amount |-> 2000, downtime_minutes |-> 90, complaint_count |-> 25]}

StageRows ==
    {[atm_id |-> "ATM-1001", predicted_issue |-> l.predicted_issue, ml_confidence |-> l.ml_confidence] @@ p :
        p \in StageProfiles, l \in [predicted_issue : {"network_failure", "unknown"}, ml_confidence : {59, 90}]}

StageBatches == UNION {[1..n -> StageRows] : n \in 0..MaxStageRows}

\* Layer 2, score_dataframe: impact_score from the four raw columns.
Layer2_score_dataframe ==
    /\ stage = "classified"
    /\ df' = [i \in DOMAIN df |->
                 [impact_score |-> calculate_impact(df[i].transaction_volume, df[i].avg_amount,
                                                    df[i].downtime_minutes, df[i].complaint_count)] @@ df[i]]
    /\ calls' = [i \in DOMAIN df |-> Append(calls[i], "calculate_impact")]
    /\ call_log' = Append(call_log, CallRecord("score_dataframe", df, df'))
    /\ clock' = clock + 1
    /\ stage' = "scored"
    /\ UNCHANGED <<threshold, gateVars, logVars, concVars, pipeVars>>

\* Layer 3, process_dataframe lines 100-108: the three action columns.
Layer3_recommended_action ==
    /\ stage = "scored"
    /\ df' = [i \in DOMAIN df |->
                 [recommended_action |-> get_recommended_action(df[i].predicted_issue).action,
                  sla_minutes |-> get_recommended_action(df[i].predicted_issue).sla_minutes,
                  responsible_team |-> get_recommended_action(df[i].predicted_issue).team] @@ df[i]]
    /\ calls' = [i \in DOMAIN df |-> Append(calls[i], "get_recommended_action")]
    /\ call_log' = Append(call_log, CallRecord("process_dataframe: actions", df, df'))
    /\ clock' = clock + 1
    /\ stage' = "recommended"
    /\ UNCHANGED <<threshold, gateVars, logVars, concVars, pipeVars>>

\* Layer 4, process_dataframe lines 109-111: the escalation_status column.
Layer4_escalation_status ==
    /\ stage = "recommended"
    /\ df' = [i \in DOMAIN df |->
                 [escalation_status |-> escalation_status(df[i].impact_score, df[i].downtime_minutes)] @@ df[i]]
    /\ calls' = [i \in DOMAIN df |-> Append(calls[i], "escalation_status")]
    /\ call_log' = Append(call_log, CallRecord("process_dataframe: escalation", df, df'))
    /\ clock' = clock + 1
    /\ stage' = "processed"
    /\ UNCHANGED <<threshold, gateVars, logVars, concVars, pipeVars>>

\* Layer 5, automate_dataframe: per row the confidence check, run_automation unless it
\* refused, and the four result columns.
Layer5_automate_dataframe ==
    /\ stage = "processed"
    /\ df' = [i \in DOMAIN df |-> AutomatedRow(df[i], i - 1, threshold)]
    /\ calls' = [i \in DOMAIN df |->
                    calls[i] \o <<"ml_confidence < threshold">>
                             \o automate_row(df[i], i - 1, threshold).trace
                             \o <<"result columns">>]
    /\ call_log' = Append(call_log, CallRecord("automate_dataframe", df, df'))
    /\ clock' = clock + 1
    /\ stage' = "automated"
    /\ UNCHANGED <<threshold, gateVars, logVars, concVars, pipeVars>>

InitStages ==
    /\ df \in StageBatches
    /\ threshold = ML_CONFIDENCE_THRESHOLD
    /\ stage = "classified"
    /\ calls = [i \in DOMAIN df |-> <<>>]
    /\ IdleGate /\ IdleLog /\ IdleConc /\ IdleCall /\ IdlePipe

NextStages ==
    \/ Layer2_score_dataframe
    \/ Layer3_recommended_action
    \/ Layer4_escalation_status
    \/ Layer5_automate_dataframe
    \/ PersistBegin
    \/ PersistRow

SpecStages == InitStages /\ [][NextStages]_vars

\* The order the claim gives the calls made for one incident.
StageOrder ==
    <<"calculate_impact", "get_recommended_action", "escalation_status",
      "ml_confidence < threshold", "is_eligible_for_automation", "simulate_step",
      "rng.random", "result columns">>

StagePlace(call) == CHOOSE p \in DOMAIN StageOrder : StageOrder[p] = call

\* The columns each layer reads (row[...] and row.get(...) in its source).
LayerReads ==
    [score_dataframe |-> {"transaction_volume", "avg_amount", "downtime_minutes", "complaint_count"},
     process_dataframe_actions |-> {"predicted_issue"},
     process_dataframe_escalation |-> {"impact_score", "downtime_minutes"},
     automate_dataframe |-> {"ml_confidence", "predicted_issue", "impact_score", "downtime_minutes",
                             "complaint_count", "escalation_status"},
     append_logs_from_dataframe |-> {"atm_id", "predicted_issue", "impact_score", "resolution_mode",
                                     "eligibility_reason", "auto_resolution_time_sec", "automation_log"}]

ReadsOf(fn) ==
    CASE fn = "score_dataframe" -> LayerReads.score_dataframe
      [] fn = "process_dataframe: actions" -> LayerReads.process_dataframe_actions
      [] fn = "process_dataframe: escalation" -> LayerReads.process_dataframe_escalation
      [] fn = "automate_dataframe" -> LayerReads.automate_dataframe

ResolutionFields == {"resolution_mode", "automation_log", "auto_resolution_time_sec", "eligibility_reason"}

\* The columns the k-th layer call added to row i.
ProducedBy(k, i) == DOMAIN call_log[k].ret[i] \ DOMAIN call_log[k].args[i]

\* C26: for every incident the calls are made in the order impact scoring, action
\* recommendation, escalation evaluation, confidence check, risk gate, playbook steps,
\* outcome draw, record assembly, the playbook steps only for a row both gates let
\* through; every layer finds the columns it reads in the row and reads none that a
\* later layer produces; and nothing is appended to the archive before the automation
\* layer has given every row its resolution fields.
C26_StagesInFixedOrder ==
    /\ \A i \in DOMAIN calls : \A m \in DOMAIN calls[i] : \A n \in DOMAIN calls[i] :
           m < n =>
               \/ StagePlace(calls[i][m]) < StagePlace(calls[i][n])
               \/ calls[i][m] = "simulate_step" /\ calls[i][n] = "simulate_step"
    /\ \A i \in DOMAIN calls :
           Contains(calls[i], "simulate_step") =>
               /\ df[i].ml_confidence >= threshold
               /\ is_eligible_for_automation(df[i].impact_score, df[i].downtime_minutes,
                                              df[i].complaint_count, df[i].escalation_status).eligible
    /\ \A k \in DOMAIN call_log : \A i \in DOMAIN call_log[k].args :
           /\ ReadsOf(call_log[k].fn) \subseteq DOMAIN call_log[k].args[i]
           /\ \A l \in DOMAIN call_log : k <= l => ReadsOf(call_log[k].fn) \cap ProducedBy(l, i) = {}
    /\ stage = "persisting" \/ appended # <<>> \/ log_file # <<>> =>
           /\ call_log # <<>>
           /\ call_log[Len(call_log)].fn = "automate_dataframe"
           /\ \A i \in DOMAIN df :
                  /\ ResolutionFields \subseteq DOMAIN df[i]
                  /\ LayerReads.append_logs_from_dataframe \subseteq DOMAIN df[i]
    /\ \A k \in DOMAIN appended :
           appended[k].resolution_mode \in {"AUTO_RESOLVED", "AUTO_ATTEMPTED", "MANUAL_REQUIRED"}

\* A batch went through all layers and into the archive: for one row the playbook ran,
\* the other was stopped by the confidence check.
C26_Witness ==
    /\ stage = "persisting"
    /\ Len(df) = 2
    /\ Len(appended) = 2
    /\ Len(call_log) = 4
    /\ Contains(calls[1], "simulate_step")
    /\ calls[1][Len(calls[1])] = "result columns"
    /\ ~Contains(calls[2], "is_eligible_for_automation")
    /\ df[2].resolution_mode = "MANUAL_REQUIRED"

----------------------------------------------------------------------------
(* SpecPlace: automate_dataframe called on one processed batch after another, so that *)
(* the same incident meets different positions and different neighbours               *)

MaxPlaceRows == 2

\* Processed incidents: the smoke-test incident with a high and with a low confidence,
\* and the escalated 1,012,500 incident.
PlaceRows ==
    {WithEscalation([predicted_issue |-> "network_failure", ml_confidence |-> c.ml_confidence,
                     impact_score |-> c.impact_score, downtime_minutes |-> 25, complaint_count |-> 8]) :
        c \in {[ml_confidence |-> 90, impact_score |-> Rupees(18000)],
               [ml_confidence |-> 59, impact_score |-> Rupees(18000)],
               [ml_confidence |-> 90, impact_score |-> Rupees(1012500)]}}

PlaceBatches == UNION {[1..n -> PlaceRows] : n \in 1..MaxPlaceRows}

\* automate_dataframe(batch, ML_CONFIDENCE_THRESHOLD): row i of the sequence has idx = i - 1.
CallAutomateDataframe ==
    /\ Len(call_log) < MaxCalls
    /\ \E batch \in PlaceBatches :
          call_log' = Append(call_log,
              CallRecord("automate_dataframe", batch,
                  [i \in DOMAIN batch |->
                      WithResult(batch[i], automate_row(batch[i], i - 1, ML_CONFIDENCE_THRESHOLD))]))
    /\ clock' = clock + 1
    /\ UNCHANGED <<gateVars, autoVars, logVars, concVars, pipeVars>>

InitPlace ==
    /\ IdleGate /\ IdleAuto /\ IdleLog /\ IdleConc /\ IdleCall /\ IdlePipe

NextPlace == CallAutomateDataframe

SpecPlace == InitPlace /\ [][NextPlace]_vars

\* Row i of call k and row j of call l are the same incident.
SameIncident(k, i, l, j) ==
    /\ k \in DOMAIN call_log /\ l \in DOMAIN call_log
    /\ call_log[k].fn = "automate_dataframe" /\ call_log[l].fn = "automate_dataframe"
    /\ i \in DOMAIN call_log[k].args /\ j \in DOMAIN call_log[l].args
    /\ call_log[k].args[i] = call_log[l].args[j]

----------------------------------------------------------------------------
(* SpecRerun: the dashboard's results section, run again at every rerun of the script  *)
(* on the batch kept in session state.  The layers are called as their signatures      *)
(* allow, so that every run gets as far as the archive.                                *)

MaxRerunRows == 2

\* Session batches of classified incidents; row i is the incident of the i-th ATM.
RerunBatches ==
    UNION {{[i \in 1..n |-> [atm_id |-> SortAtmIds[i], predicted_issue |-> l[i].predicted_issue,
                              ml_confidence |-> l[i].ml_confidence] @@ p[i]] :
               p \in [1..n -> StageProfiles],
               l \in [1..n -> [predicted_issue : {"network_failure", "unknown"}, ml_confidence : {59, 90}]]} :
           n \in 0..MaxRerunRows}

\* Layers 2 to 5 for one classified row.
PipelineRow(row, idx, ml_confidence_threshold) ==
    AutomatedRow(
        ProcessedRow([impact_score |-> calculate_impact(row.transaction_volume, row.avg_amount,
                                                        row.downtime_minutes, row.complaint_count),
                      impact_nan |-> FALSE] @@ row),
        idx, ml_confidence_threshold)

\* app.py lines 1054-1060: run_pipeline(raw_df, confidence_threshold=..., execution_mode=...)
\* with persist_logs left at its default True: layers 2 to 5, append_logs_from_dataframe,
\* the sort.
AppRerun ==
    LET automated == [i \in DOMAIN df |-> PipelineRow(df[i], i - 1, threshold)]
        batch == [i \in DOMAIN automated |-> RowLogArgs(automated[i])]
    IN  /\ stage = "results"
        /\ Len(call_log) < MaxCalls
        /\ log_file' = AppendAll(_ensure_file(log_file), batch)
        /\ appended' = appended \o batch
        /\ call_log' = Append(call_log, CallRecord("run_pipeline", df, SortValues(automated)))
        /\ clock' = clock + 1
        /\ UNCHANGED <<autoVars, last_read, read_counts, gateVars, concVars, pipeVars>>

InitRerun ==
    /\ df \in RerunBatches
    /\ threshold = ML_CONFIDENCE_THRESHOLD
    /\ stage = "results"
    /\ calls = <<>>
    /\ IdleGate /\ IdleLog /\ IdleConc /\ IdleCall /\ IdlePipe

NextRerun == AppRerun

SpecRerun == InitRerun /\ [][NextRerun]_vars

\* The archive's entries for the incident of one ATM.
EntriesFor(atm_id) ==
    IF log_file = <<>> THEN {}
    ELSE {n \in DOMAIN log_file[1] : log_file[1][n].kind = "row" /\ log_file[1][n].cells.atm_id = atm_id}

====
